---- MODULE Spec2Model ----
(***************************************************************************)
(* Horse Runner: the per-frame simulation of HorseRunnerGame.tsx (the      *)
(* component that imports utils/collisionHelpers and utils/gameLogic),     *)
(* with the input intents that mutate the same state.                      *)
(*                                                                         *)
(* Numbers.  The program computes in IEEE doubles.  The model is           *)
(* fixed-point:                                                            *)
(*   - lengths, positions, velocities, speed, speedBoost: thousandths      *)
(*     (GROUND_Y = 300 is written 300000, GRAVITY = 0.8 is written 800);   *)
(*   - speedFactor: ten-thousandths (1.0 is written 10000), so that        *)
(*     1.0 + distance * 0.0002 is the exact integer 10000 + 2 * distance;  *)
(*   - score, keys, distance, drowningTimer: the program's integers.       *)
(* A product of two fixed-point numbers is truncated to a thousandth.      *)
(***************************************************************************)
EXTENDS Integers, Sequences, FiniteSets, TLC

VARIABLES
    gameState,   \* the React state `gameState` (GameState of types/gameTypes)
    frames,      \* number of gameLoop callbacks the run still makes (bounds it)
    intents,     \* number of input intents issued so far (bounds the run)
    nextId,      \* identity of the next entity created (entities have no id in
                 \* the program; the model tags them to follow one entity over frames)
    effects,     \* the calls of handleCollisionEffects made by the latest frame
    highScoreState, \* the React state `highScoreState` (HighScoreState)
    submitted,   \* the latest call of addHighScore: its arguments, what it
                 \* returned and the array passed in as the call left it
    spawned,     \* the latest call of ObjectSpawner.generateObjects: the
                 \* values Math.random returned and the entries selected
    generated,   \* the entity the latest call of a generator of objects/
                 \* or of utils/gameLogic returned
    updated,     \* the latest call of GameObjectsManager.updateObjects: its
                 \* arguments, the array returned and whether that array is
                 \* the one passed in
    updater,     \* a GameStateUpdater: its fields, with the number of update
                 \* calls made on it and the state obtained by applying the
                 \* calls' partial updates one after another
    rendered,    \* the flags of the `gameState` of the render whose effects
                 \* ran last: what the closures of the game-loop effect and of
                 \* the input handlers read as gameState.gameStarted,
                 \* .gameRunning and .gamePaused
    gameLoopRef, \* gameLoopRef.current: a requestAnimationFrame id, 0 for undefined
    pending,     \* the animation-frame callbacks requested and neither run nor
                 \* cancelled: the id and the flags its gameLoop closure reads
    rafCount,    \* number of requestAnimationFrame calls so far (the last id)
    steps        \* number of simulation steps the latest animation frame made

\* the state the game loop and the input intents never touch
\* the game-loop effect's scheduling state
loopVars == <<rendered, gameLoopRef, pending, rafCount, steps>>

others == <<highScoreState, submitted, spawned, generated, updated, updater,
            loopVars>>

vars == <<gameState, frames, intents, nextId, effects, highScoreState, submitted,
          spawned, generated, updated, updater, rendered, gameLoopRef, pending,
          rafCount, steps>>

-----------------------------------------------------------------------------
\* Bounds of the model.  MaxFrames: the frames of a run from the start screen
\* and of a run that meets a water hole (a drowning lasts 63 frames);
\* ShortRun: the frames of the other runs in progress (a jump lasts 37);
\* MaxIntents: the input intents of a run that change the state.

MaxFrames == 66
ShortRun == 40
MaxIntents == 2

-----------------------------------------------------------------------------
\* constants/gameConstants.ts (thousandths, see above)

GAME_WIDTH == 800000
GAME_HEIGHT == 400000
GROUND_Y == 300000
HORSE_WIDTH == 40000
HORSE_HEIGHT == 30000
DUCK_HEIGHT == 20000
GRAVITY == 800
JUMP_FORCE == -15000
PLATFORM_HEIGHT == 40000
INITIAL_SPEED == 4000
MIN_SPEED == 1000
LANDING_THRESHOLD == 15000
DROWNING_ANIMATION_DURATION == 1000
DROWNING_BLOCK_DELAY == 200
FRUIT_SPEED_BOOST_BASE == 500
FRUIT_SPEED_BOOST_MAX == 3000
MUSHROOM_SPEED_REDUCTION == 300
SPEED_FACTOR_INCREASE_RATE == 2
MAX_SPEED_FACTOR == 25000
MIN_OBSTACLE_SPACING == 150000
MAX_OBSTACLE_SPACING == 400000

\* literals of the code
HORSE_X == 100000
MUSHROOM_MIN_BOOST == -1000
FRAME_MS == 16
BOOST_DECAY == 20
SPEED_DECAY == 5
SPEED_DECAY_FLOOR == 2000
SINK_DISTANCE == 60
OFFSCREEN_X == -100000
SPAWN_TRIGGER_MARGIN == 100000
SPAWN_MIN_MARGIN == 50000
EMPTY_FRONTIER_BACKOFF == 500000
JUMP_TOLERANCE == 5000
PLATFORM_TOP_BUFFER == 5000
FLOATING_BUFFER == 15000
FRONT_EDGE_BAND == 10000

Max(a, b) == IF a >= b THEN a ELSE b
Min(a, b) == IF a <= b THEN a ELSE b

-----------------------------------------------------------------------------
\* utils/collisionHelpers.ts

horseHeightOf(horse) == IF horse.isDucking THEN DUCK_HEIGHT ELSE HORSE_HEIGHT

checkCollisionStrict(horse, obj) ==
    /\ horse.x < obj.x + obj.width
    /\ horse.x + HORSE_WIDTH > obj.x
    /\ horse.y < obj.y + obj.height
    /\ horse.y + horseHeightOf(horse) > obj.y

checkCollision(horse, obj) ==
    /\ horse.x < obj.x + obj.width
    /\ horse.x + HORSE_WIDTH > obj.x
    /\ horse.y < obj.y + obj.height
    /\ horse.y + horseHeightOf(horse) >= obj.y

checkPlatformLanding(horse, platform) ==
    LET horseBottom == horse.y + horseHeightOf(horse)
        platformTop == platform.y
        horizontalOverlap ==
            /\ horse.x < platform.x + platform.width
            /\ horse.x + HORSE_WIDTH > platform.x
        isLandingOnTop ==
            /\ horseBottom >= platformTop - LANDING_THRESHOLD
            /\ horseBottom <= platformTop + PLATFORM_TOP_BUFFER
            /\ horse.velocityY >= 0
    IN  horizontalOverlap /\ isLandingOnTop

checkPlatformWallCollisionSolid(horse, platform) ==
    LET horseBottom == horse.y + horseHeightOf(horse)
        platformTop == platform.y
        atPlatformLevel == horseBottom > platformTop + PLATFORM_TOP_BUFFER
    IN  /\ horse.x + HORSE_WIDTH >= platform.x
        /\ horse.x < platform.x + FRONT_EDGE_BAND
        /\ atPlatformLevel

checkPlatformWallCollision(horse, platform) ==
    LET horseBottom == horse.y + horseHeightOf(horse)
        platformTop == platform.y
        isAtPlatformLevel == horseBottom <= platformTop + FLOATING_BUFFER
        atPlatformLevel == horseBottom > platformTop + PLATFORM_TOP_BUFFER
        hitsWall ==
            /\ horse.x + HORSE_WIDTH >= platform.x
            /\ horse.x < platform.x + FRONT_EDGE_BAND
            /\ atPlatformLevel
    IN  IF platform.type = "floatingPlatform" /\ ~isAtPlatformLevel
        THEN FALSE
        ELSE hitsWall

-----------------------------------------------------------------------------
\* types/gameTypes: GameObject.  An absent optional field reads as the value
\* the code's tests give it: collected and isRideable falsy, platformLevel
\* (read as `obj.platformLevel || 0`) 0.

Entity(id, type, x, y, width, height, platformLevel, isRideable) ==
    [id |-> id, type |-> type, x |-> x, y |-> y, width |-> width,
     height |-> height, collected |-> FALSE,
     platformLevel |-> platformLevel, isRideable |-> isRideable]

\* utils/gameLogic.ts, the generators.  `band` is the branch the generator's
\* first Math.random() selects, `f` its second draw.

generateFruit(id, spawnX, band, f) ==
    LET fruitY == CASE band = 1 -> GROUND_Y - 10000 - f * 15
                    [] band = 2 -> GROUND_Y - 25000 - f * 25
                    [] OTHER    -> GROUND_Y - 50000 - f * 35
    IN  Entity(id, "fruit", spawnX, fruitY, 15000, 15000, 0, FALSE)

generateFloatingPlatform(id, spawnX, f, g, level) ==
    LET platformWidth == 60000 + f * 40
        floatingHeight == 80000 + g * 60
    IN  Entity(id, "floatingPlatform", spawnX + 100000,
               GROUND_Y - floatingHeight, platformWidth, 25000, level, TRUE)

\* `kind` is the branch terrainRand selects, in the order of the code.
generateTerrain(id, spawnX, kind, f, g, level) ==
    CASE kind = 1 ->
           Entity(id, "waterHole", spawnX + 100000, GROUND_Y, 50000,
                  GAME_HEIGHT - GROUND_Y, 0, FALSE)
      [] kind = 2 ->
           Entity(id, "lowBarrier", spawnX + 100000, GROUND_Y - 50000,
                  15000, 30000, 0, FALSE)
      [] kind = 3 ->
           Entity(id, "highBarrier", spawnX + 100000, GROUND_Y - 60000,
                  20000, 60000, 0, FALSE)
      [] kind = 4 ->
           Entity(id, "obstacle", spawnX + 100000, GROUND_Y - 40000,
                  20000, 40000, 0, FALSE)
      [] kind = 5 ->
           Entity(id, "platform", spawnX + 100000, GROUND_Y - PLATFORM_HEIGHT,
                  80000 + f * 60, PLATFORM_HEIGHT, 1, TRUE)
      [] kind = 6 ->
           Entity(id, "platform", spawnX + 100000,
                  GROUND_Y - PLATFORM_HEIGHT * 2,
                  60000 + f * 40, PLATFORM_HEIGHT * 2, 2, TRUE)
      [] kind = 7 ->
           Entity(id, "platform", spawnX + 100000,
                  GROUND_Y - PLATFORM_HEIGHT * 3,
                  40000 + f * 40, PLATFORM_HEIGHT * 3, 3, TRUE)
      [] OTHER -> generateFloatingPlatform(id, spawnX, f, g, level)

generateStar(id, spawnX) ==
    Entity(id, "star", spawnX + 50000, GROUND_Y - 70000, 12000, 12000, 0, FALSE)

generateMushroom(id, spawnX, band, f) ==
    LET mushroomY == CASE band = 1 -> GROUND_Y - 15000 - f * 20
                       [] band = 2 -> GROUND_Y - 35000 - f * 20
                       [] OTHER    -> GROUND_Y - 55000 - f * 20
    IN  Entity(id, "mushroom", spawnX, mushroomY, 15000, 15000, 0, FALSE)

generateKey(id, spawnX, f) ==
    Entity(id, "key", spawnX, GROUND_Y - 60000 - f * 30, 16000, 16000, 0, FALSE)

\* The draws of one call of spawnNewObjects: for each of its five
\* `Math.random() < p` tests whether it passed (on), and the draws of the
\* generator it then calls.  A test that fails makes no further draw.
NoDraw == [on |-> FALSE, band |-> 1, f |-> 0, g |-> 0, level |-> 1]
OnCount(d) == (IF d.fruit.on THEN 1 ELSE 0) + (IF d.mushroom.on THEN 1 ELSE 0)
    + (IF d.key.on THEN 1 ELSE 0) + (IF d.terrain.on THEN 1 ELSE 0)
    + (IF d.star.on THEN 1 ELSE 0)

RECURSIVE MaxX(_, _, _)
MaxX(objs, i, acc) ==
    IF i > Len(objs) THEN acc ELSE MaxX(objs, i + 1, Max(acc, objs[i].x))

rightmostXOf(gameObjects) ==
    MaxX(gameObjects, 1, GAME_WIDTH - EMPTY_FRONTIER_BACKOFF)

spacingOf(speedFactor) ==
    Min(MIN_OBSTACLE_SPACING
          + (((speedFactor - 10000) * ((MAX_OBSTACLE_SPACING - MIN_OBSTACLE_SPACING) \div 10000)) \div 2),
        MAX_OBSTACLE_SPACING)

spawnXOfNoSpacing(gameObjects, speedFactor) ==
    Max(rightmostXOf(gameObjects), GAME_WIDTH + SPAWN_MIN_MARGIN)

spawnXOf(gameObjects, speedFactor) ==
    Max(rightmostXOf(gameObjects) + spacingOf(speedFactor), GAME_WIDTH + SPAWN_MIN_MARGIN)

\* the entities one call appends, in the order of the code's pushes
newObjectsOf(spawnX, d, id) ==
    LET n1 == IF d.fruit.on THEN 1 ELSE 0
        n2 == n1 + (IF d.mushroom.on THEN 1 ELSE 0)
        n3 == n2 + (IF d.key.on THEN 1 ELSE 0)
        n4 == n3 + (IF d.terrain.on THEN 1 ELSE 0)
    IN  (IF d.fruit.on
           THEN <<generateFruit(id, spawnX, d.fruit.band, d.fruit.f)>> ELSE <<>>)
     \o (IF d.mushroom.on
           THEN <<generateMushroom(id + n1, spawnX + 25000, d.mushroom.band, d.mushroom.f)>>
           ELSE <<>>)
     \o (IF d.key.on
           THEN <<generateKey(id + n2, spawnX + 50000, d.key.f)>> ELSE <<>>)
     \o (IF d.terrain.on
           THEN <<generateTerrain(id + n3, spawnX, d.terrain.band, d.terrain.f,
                                  d.terrain.g, d.terrain.level)>>
           ELSE <<>>)
     \o (IF d.star.on THEN <<generateStar(id + n4, spawnX)>> ELSE <<>>)

spawnNewObjectsInFront(gameObjects, speedFactor, d, id) ==
    IF rightmostXOf(gameObjects) < GAME_WIDTH + SPAWN_TRIGGER_MARGIN
    THEN newObjectsOf(spawnXOf(gameObjects, speedFactor), d, id) \o gameObjects
    ELSE gameObjects

spawnNewObjects(gameObjects, speedFactor, d, id) ==
    IF rightmostXOf(gameObjects) < GAME_WIDTH + SPAWN_TRIGGER_MARGIN
    THEN gameObjects \o newObjectsOf(spawnXOf(gameObjects, speedFactor), d, id)
    ELSE gameObjects

createInitialObjects ==
    <<Entity(1, "fruit", GAME_WIDTH + 200000, GROUND_Y - 25000, 15000, 15000, 0, FALSE),
      Entity(2, "fruit", GAME_WIDTH + 400000, GROUND_Y - 25000, 15000, 15000, 0, FALSE),
      Entity(3, "obstacle", GAME_WIDTH + 500000, GROUND_Y - 40000, 20000, 40000, 0, FALSE),
      Entity(4, "fruit", GAME_WIDTH + 600000, GROUND_Y - 25000, 15000, 15000, 0, FALSE)>>

-----------------------------------------------------------------------------
\* utils/gameLogic.ts, handleCollisionEffects, with the caller's
\* Object.assign(newState, collisionUpdates): the state after the dispatch.

\* case 'fruit': boostAmount = FRUIT_SPEED_BOOST_BASE * speedFactor
boostAmountOf(speedFactor) == (FRUIT_SPEED_BOOST_BASE * speedFactor) \div 10000

fruitBoostUncapped(speedBoost, speedFactor) == speedBoost + boostAmountOf(speedFactor)

fruitBoost(speedBoost, speedFactor) ==
    Min(FRUIT_SPEED_BOOST_MAX, speedBoost + boostAmountOf(speedFactor))

\* case 'mushroom': scaledReduction = MUSHROOM_SPEED_REDUCTION * speedFactor
scaledReductionOf(speedFactor) == (MUSHROOM_SPEED_REDUCTION * speedFactor) \div 10000

mushroomBoostUnfloored(speedBoost, speedFactor) ==
    speedBoost - scaledReductionOf(speedFactor)

mushroomBoost(speedBoost, speedFactor) ==
    Max(MUSHROOM_MIN_BOOST, speedBoost - scaledReductionOf(speedFactor))

\* case 'lowBarrier': game over only if not ducking
lowBarrierEndsAlways(horse) == TRUE

lowBarrierEnds(horse) == ~horse.isDucking

handleCollisionEffectsDuckable(gs, obj) ==
    CASE obj.type = "fruit" ->
           [gs EXCEPT !.score = gs.score + 10,
                      !.speedBoost = fruitBoost(gs.speedBoost, gs.speedFactor)]
      [] obj.type = "star" ->
           [gs EXCEPT !.score = gs.score + 50]
      [] obj.type = "key" ->
           [gs EXCEPT !.keys = gs.keys + 1, !.score = gs.score + 25]
      [] obj.type = "mushroom" ->
           [gs EXCEPT !.speedBoost = mushroomBoost(gs.speedBoost, gs.speedFactor)]
      [] obj.type = "waterHole" ->
           IF ~gs.horse.isDrowning
           THEN [gs EXCEPT !.horse.isDrowning = TRUE, !.horse.drowningTimer = 0]
           ELSE gs
      [] obj.type \in {"obstacle", "highBarrier", "lowBarrier"} ->
           IF lowBarrierEnds(gs.horse) THEN [gs EXCEPT !.gameRunning = FALSE] ELSE gs
      [] OTHER -> gs

handleCollisionEffectsRedrown(gs, obj) ==
    CASE obj.type = "fruit" ->
           [gs EXCEPT !.score = gs.score + 10,
                      !.speedBoost = fruitBoost(gs.speedBoost, gs.speedFactor)]
      [] obj.type = "star" ->
           [gs EXCEPT !.score = gs.score + 50]
      [] obj.type = "key" ->
           [gs EXCEPT !.keys = gs.keys + 1, !.score = gs.score + 25]
      [] obj.type = "mushroom" ->
           [gs EXCEPT !.speedBoost = mushroomBoost(gs.speedBoost, gs.speedFactor)]
      [] obj.type \in {"obstacle", "highBarrier"} ->
           [gs EXCEPT !.gameRunning = FALSE]
      [] obj.type = "waterHole" ->
           [gs EXCEPT !.horse.isDrowning = TRUE, !.horse.drowningTimer = 0]
      [] obj.type = "lowBarrier" ->
           IF lowBarrierEnds(gs.horse) THEN [gs EXCEPT !.gameRunning = FALSE] ELSE gs
      [] OTHER -> gs

handleCollisionEffects(gs, obj) ==
    CASE obj.type = "fruit" ->
           [gs EXCEPT !.score = gs.score + 10,
                      !.speedBoost = fruitBoost(gs.speedBoost, gs.speedFactor)]
      [] obj.type = "star" ->
           [gs EXCEPT !.score = gs.score + 50]
      [] obj.type = "key" ->
           [gs EXCEPT !.keys = gs.keys + 1, !.score = gs.score + 25]
      [] obj.type = "mushroom" ->
           [gs EXCEPT !.speedBoost = mushroomBoost(gs.speedBoost, gs.speedFactor)]
      [] obj.type \in {"obstacle", "highBarrier"} ->
           [gs EXCEPT !.gameRunning = FALSE]
      [] obj.type = "waterHole" ->
           IF ~gs.horse.isDrowning
           THEN [gs EXCEPT !.horse.isDrowning = TRUE, !.horse.drowningTimer = 0]
           ELSE gs
      [] obj.type = "lowBarrier" ->
           IF lowBarrierEnds(gs.horse) THEN [gs EXCEPT !.gameRunning = FALSE] ELSE gs
      [] OTHER -> gs

-----------------------------------------------------------------------------
\* components/HorseRunnerGame.tsx, gameLoop, step by step.

\* newState.horse.velocityY += GRAVITY; newState.horse.y += velocityY
integrateGravity(horse) ==
    IF ~horse.isDrowning
    THEN [horse EXCEPT !.velocityY = horse.velocityY + GRAVITY,
                       !.y = horse.y + (horse.velocityY + GRAVITY)]
    ELSE horse

\* the entities the platform pass looks at
isPlatformEntity(obj) == obj.type = "platform" /\ obj.isRideable

landOn(horse, obj) ==
    [horse EXCEPT !.y = obj.y - horseHeightOf(horse),
                  !.velocityY = 0,
                  !.isJumping = FALSE,
                  !.currentPlatformLevel = obj.platformLevel]

wallPenalty(speed) == Max(MIN_SPEED, (speed * 7) \div 10)

\* acc = [horse, speed, landedOnPlatform, hitPlatformWall]; prevBlocked is
\* prev.horse.isBlocked
RECURSIVE platformPass(_, _, _, _)
platformPass(objs, i, prevBlocked, acc) ==
    IF i > Len(objs) THEN acc
    ELSE IF ~isPlatformEntity(objs[i]) THEN platformPass(objs, i + 1, prevBlocked, acc)
    ELSE
      LET obj == objs[i]
          a1 == IF checkPlatformLanding(acc.horse, obj)
                THEN [acc EXCEPT !.horse = landOn(acc.horse, obj),
                                 !.landedOnPlatform = TRUE]
                ELSE acc
          a2 == IF checkPlatformWallCollision(a1.horse, obj)
                THEN [a1 EXCEPT !.hitPlatformWall = TRUE,
                                !.horse.isBlocked = TRUE,
                                !.speed = IF ~prevBlocked
                                          THEN wallPenalty(a1.speed)
                                          ELSE a1.speed]
                ELSE a1
      IN  platformPass(objs, i + 1, prevBlocked, a2)

clearBlockNever(horse, prevBlocked, hitPlatformWall) == horse

clearBlock(horse, prevBlocked, hitPlatformWall) ==
    IF prevBlocked /\ ~hitPlatformWall /\ ~horse.isDrowning
    THEN [horse EXCEPT !.isBlocked = FALSE]
    ELSE horse

\* the drowning block; returns the horse, gameRunning is drowningEnds
drowningStepNoBlock(horse) ==
    IF horse.isDrowning
    THEN LET t == horse.drowningTimer + FRAME_MS
         IN  [horse EXCEPT !.drowningTimer = t,
                           !.y = GROUND_Y - HORSE_HEIGHT
                                   + (t * SINK_DISTANCE * 1000) \div DROWNING_ANIMATION_DURATION]
    ELSE horse

drowningStep(horse) ==
    IF horse.isDrowning
    THEN LET t == horse.drowningTimer + FRAME_MS
         IN  [horse EXCEPT !.drowningTimer = t,
                           !.isBlocked = IF t >= DROWNING_BLOCK_DELAY /\ ~horse.isBlocked
                                         THEN TRUE ELSE horse.isBlocked,
                           !.y = GROUND_Y - HORSE_HEIGHT
                                   + (t * SINK_DISTANCE * 1000) \div DROWNING_ANIMATION_DURATION]
    ELSE horse

drowningEndsLate(horse) ==
    horse.isDrowning /\ horse.drowningTimer >= DROWNING_ANIMATION_DURATION + FRAME_MS

\* evaluated on the horse after drowningStep
drowningEnds(horse) ==
    horse.isDrowning /\ horse.drowningTimer >= DROWNING_ANIMATION_DURATION

groundCollisionNoStop(horse, landedOnPlatform) ==
    LET targetGroundY == GROUND_Y - horseHeightOf(horse)
    IN  IF ~landedOnPlatform /\ ~horse.isDrowning /\ horse.y >= targetGroundY
        THEN [horse EXCEPT !.y = targetGroundY,
                           !.isJumping = FALSE,
                           !.currentPlatformLevel = 0]
        ELSE horse

groundCollision(horse, landedOnPlatform) ==
    LET targetGroundY == GROUND_Y - horseHeightOf(horse)
    IN  IF ~landedOnPlatform /\ ~horse.isDrowning /\ horse.y >= targetGroundY
        THEN [horse EXCEPT !.y = targetGroundY,
                           !.velocityY = 0,
                           !.isJumping = FALSE,
                           !.currentPlatformLevel = 0]
        ELSE horse

speedFactorUncapped(distance) == 10000 + distance * SPEED_FACTOR_INCREASE_RATE

speedFactorOf(distance) ==
    Min(MAX_SPEED_FACTOR, 10000 + distance * SPEED_FACTOR_INCREASE_RATE)

\* gs carries the new speedFactor and the speed the platform pass left
updateSpeedBoostOnly(gs) ==
    IF gs.speedBoost > 0
    THEN LET b == gs.speedBoost - BOOST_DECAY
         IN  [gs EXCEPT !.speedBoost = b,
                        !.speed = (b * gs.speedFactor) \div 10000]
    ELSE gs

updateSpeed(gs) ==
    IF gs.speedBoost > 0
    THEN LET b == gs.speedBoost - BOOST_DECAY
         IN  [gs EXCEPT !.speedBoost = b,
                        !.speed = ((gs.baseSpeed + b) * gs.speedFactor) \div 10000]
    ELSE LET s == Max(SPEED_DECAY_FLOOR, gs.speed - SPEED_DECAY)
         IN  [gs EXCEPT !.speed = IF s <= gs.baseSpeed
                                  THEN (gs.baseSpeed * gs.speedFactor) \div 10000
                                  ELSE s]

RECURSIVE shiftAll(_, _, _)
shiftAll(objs, i, dx) ==
    IF i > Len(objs) THEN <<>>
    ELSE <<[objs[i] EXCEPT !.x = objs[i].x - dx]>> \o shiftAll(objs, i + 1, dx)

moveObjectsAlways(gameObjects, isBlocked, speed) == shiftAll(gameObjects, 1, speed)

moveObjects(gameObjects, isBlocked, speed) ==
    IF ~isBlocked THEN shiftAll(gameObjects, 1, speed) ELSE gameObjects

onScreen(obj) == obj.x > OFFSCREEN_X

despawnNever(gameObjects) == gameObjects

despawn(gameObjects) == SelectSeq(gameObjects, onScreen)

accrueDistanceBack(gs) ==
    IF ~gs.horse.isBlocked
    THEN [gs EXCEPT !.distance = gs.distance - (gs.speed \div 2000)]
    ELSE gs

accrueDistance(gs) ==
    IF ~gs.horse.isBlocked
    THEN [gs EXCEPT !.distance = gs.distance + (gs.speed \div 2000)]
    ELSE gs

\* the collision pass: which entities are dispatched, which are marked
shouldDispatchAgain(horse, obj) == checkCollision(horse, obj)

shouldDispatch(horse, obj) == ~obj.collected /\ checkCollision(horse, obj)

\* barriers treated as permanent terrain too
marksCollectedNoBarrier(obj) ==
    obj.type \notin {"platform", "waterHole", "lowBarrier"}

marksCollected(obj) == obj.type # "platform" /\ obj.type # "waterHole"

\* the state without its entity list (what a dispatch may read and write)
Summary(gs) == [f \in (DOMAIN gs) \ {"gameObjects"} |-> gs[f]]

RECURSIVE collisionPass(_, _, _)
collisionPass(gs, i, log) ==
    IF i > Len(gs.gameObjects) THEN [gs |-> gs, log |-> log]
    ELSE
      LET obj == gs.gameObjects[i]
      IN  IF shouldDispatch(gs.horse, obj)
          THEN LET marked == IF marksCollected(obj)
                             THEN [obj EXCEPT !.collected = TRUE] ELSE obj
                   g1 == [gs EXCEPT !.gameObjects[i] = marked]
                   g2 == handleCollisionEffects(g1, marked)
               IN  collisionPass(g2, i + 1,
                     Append(log, [id |-> obj.id, type |-> obj.type,
                                  before |-> Summary(g1), after |-> Summary(g2)]))
          ELSE collisionPass(gs, i + 1, log)

skipsFrameUnlessOver(prev) == ~prev.gameStarted \/ ~prev.gameRunning

\* "Don't update if game shouldn't be running"
skipsFrame(prev) == ~prev.gameStarted \/ ~prev.gameRunning \/ prev.gamePaused

\* One callback of the game loop on state prev, with the spawner's draws d
\* and the identity id for the first entity it creates.
gameLoop(prev, d, id) ==
    IF skipsFrame(prev)
    THEN [gs |-> prev, log |-> <<>>]
    ELSE
      LET h1 == integrateGravity(prev.horse)
          pp == platformPass(prev.gameObjects, 1, prev.horse.isBlocked,
                             [horse |-> h1, speed |-> prev.speed,
                              landedOnPlatform |-> FALSE, hitPlatformWall |-> FALSE])
          h2 == clearBlock(pp.horse, prev.horse.isBlocked, pp.hitPlatformWall)
          h3 == drowningStep(h2)
          h4 == groundCollision(h3, pp.landedOnPlatform)
          s1 == [prev EXCEPT !.horse = h4,
                             !.speed = pp.speed,
                             !.gameRunning = IF drowningEnds(h3) THEN FALSE ELSE prev.gameRunning,
                             !.speedFactor = speedFactorOf(prev.distance)]
          s2 == updateSpeed(s1)
          moved == moveObjects(s2.gameObjects, s2.horse.isBlocked, s2.speed)
          s3 == [s2 EXCEPT !.gameObjects = despawn(spawnNewObjects(moved, s2.speedFactor, d, id))]
          s4 == accrueDistance(s3)
      IN  collisionPass(s4, 1, <<>>)

-----------------------------------------------------------------------------
\* The state after construction (useState initial value) and the handlers.

spawnPose ==
    [x |-> HORSE_X, y |-> GROUND_Y - HORSE_HEIGHT, velocityY |-> 0,
     isDucking |-> FALSE, isJumping |-> FALSE, currentPlatformLevel |-> 0,
     isBlocked |-> FALSE, isDrowning |-> FALSE, drowningTimer |-> 0]

initialGameState ==
    [horse |-> spawnPose, gameObjects |-> <<>>,
     speed |-> INITIAL_SPEED, baseSpeed |-> INITIAL_SPEED,
     speedBoost |-> 0, speedFactor |-> 10000,
     score |-> 0, distance |-> 0, keys |-> 0,
     gameRunning |-> FALSE, gameStarted |-> FALSE, gamePaused |-> FALSE]

\* loadHighScores on a storage without scores; no addHighScore call yet
NoScores ==
    /\ highScoreState = [scores |-> <<>>, lastPlayerName |-> ""]
    /\ submitted = <<>>

\* no call of the components the game component does not use
NoCalls ==
    /\ spawned = <<>>
    /\ generated = <<>>
    /\ updated = <<>>
    /\ updater = <<>>

\* the scheduling of the game loop is not followed: nothing requested
NoLoop ==
    /\ rendered = <<>>
    /\ gameLoopRef = 0
    /\ pending = {}
    /\ rafCount = 0
    /\ steps = 0

Init ==
    /\ gameState = initialGameState
    /\ frames = MaxFrames
    /\ intents = 0
    /\ nextId = 1
    /\ effects = <<>>
    /\ NoScores
    /\ NoCalls
    /\ NoLoop

startGameKeepsHorse(prev) ==
    [prev EXCEPT !.gameStarted = TRUE, !.gameRunning = TRUE, !.gamePaused = FALSE,
                 !.score = 0, !.distance = 0, !.keys = 0,
                 !.speed = INITIAL_SPEED, !.speedBoost = 0, !.speedFactor = 10000,
                 !.gameObjects = createInitialObjects]

startGame(prev) ==
    [prev EXCEPT !.gameStarted = TRUE, !.gameRunning = TRUE, !.gamePaused = FALSE,
                 !.score = 0, !.distance = 0, !.keys = 0,
                 !.speed = INITIAL_SPEED, !.speedBoost = 0, !.speedFactor = 10000,
                 !.gameObjects = createInitialObjects,
                 !.horse = spawnPose]

\* the callers of startGame: the start screen and the game-over screen, and
\* the same two cases in handleKeyDown and handleTouchStart
canStart(gs) ==
    \/ ~gs.gameStarted
    \/ gs.gameStarted /\ ~gs.gameRunning /\ ~gs.gamePaused

togglePause(prev) ==
    IF prev.gameStarted /\ prev.gameRunning
    THEN [prev EXCEPT !.gamePaused = ~prev.gamePaused]
    ELSE prev

expectedYOf(horse) ==
    IF horse.currentPlatformLevel > 0
    THEN GROUND_Y - HORSE_HEIGHT - PLATFORM_HEIGHT * horse.currentPlatformLevel
    ELSE GROUND_Y - HORSE_HEIGHT

jump(prev) ==
    IF prev.gameStarted /\ prev.gameRunning /\ ~prev.gamePaused
       /\ prev.horse.y >= expectedYOf(prev.horse) - JUMP_TOLERANCE
    THEN [prev EXCEPT !.horse.velocityY = JUMP_FORCE,
                      !.horse.isJumping = TRUE,
                      !.horse.isDucking = FALSE]
    ELSE prev

startDuck(prev) ==
    IF prev.gameStarted /\ prev.gameRunning /\ ~prev.gamePaused
    THEN [prev EXCEPT !.horse.isDucking = TRUE]
    ELSE prev

stopDuck(prev) == [prev EXCEPT !.horse.isDucking = FALSE]

\* the draws a frame on prev can make: the spawner draws only when the
\* frontier has come within GAME_WIDTH + 100
beforeSpawn(prev) ==
    LET h1 == integrateGravity(prev.horse)
        pp == platformPass(prev.gameObjects, 1, prev.horse.isBlocked,
                           [horse |-> h1, speed |-> prev.speed,
                            landedOnPlatform |-> FALSE, hitPlatformWall |-> FALSE])
        h3 == drowningStep(clearBlock(pp.horse, prev.horse.isBlocked, pp.hitPlatformWall))
        s2 == updateSpeed([prev EXCEPT !.horse = groundCollision(h3, pp.landedOnPlatform),
                                       !.speed = pp.speed,
                                       !.speedFactor = speedFactorOf(prev.distance)])
    IN  moveObjects(s2.gameObjects, s2.horse.isBlocked, s2.speed)

NoDraws == [fruit |-> NoDraw, mushroom |-> NoDraw, key |-> NoDraw,
            terrain |-> NoDraw, star |-> NoDraw]

\* The draws the frames of a run make when the spawner is due: only the
\* fruit test passes, or all five pass.
FrameDraws ==
    {[NoDraws EXCEPT !.fruit = [NoDraw EXCEPT !.on = TRUE, !.band = 2]],
     [fruit |-> [NoDraw EXCEPT !.on = TRUE, !.f = 999],
      mushroom |-> [NoDraw EXCEPT !.on = TRUE, !.band = 3],
      key |-> [NoDraw EXCEPT !.on = TRUE],
      terrain |-> [NoDraw EXCEPT !.on = TRUE, !.band = 5, !.f = 999],
      star |-> [NoDraw EXCEPT !.on = TRUE]]}

drawsOf(prev) ==
    IF prev.gameStarted /\ prev.gameRunning /\ ~prev.gamePaused
       /\ rightmostXOf(beforeSpawn(prev)) < GAME_WIDTH + SPAWN_TRIGGER_MARGIN
    THEN FrameDraws
    ELSE {NoDraws}

StartGame ==
    /\ intents < MaxIntents
    /\ canStart(gameState)
    /\ gameState' = startGame(gameState)
    /\ intents' = intents + 1
    /\ nextId' = Len(createInitialObjects) + 1
    /\ effects' = <<>>
    /\ UNCHANGED <<frames, others>>

TogglePause ==
    /\ intents < MaxIntents
    /\ togglePause(gameState) # gameState
    /\ gameState' = togglePause(gameState)
    /\ intents' = intents + 1
    /\ UNCHANGED <<frames, nextId, effects, others>>

Jump ==
    /\ intents < MaxIntents
    /\ jump(gameState) # gameState
    /\ gameState' = jump(gameState)
    /\ intents' = intents + 1
    /\ UNCHANGED <<frames, nextId, effects, others>>

StartDuck ==
    /\ intents < MaxIntents
    /\ startDuck(gameState) # gameState
    /\ gameState' = startDuck(gameState)
    /\ intents' = intents + 1
    /\ UNCHANGED <<frames, nextId, effects, others>>

StopDuck ==
    /\ intents < MaxIntents
    /\ stopDuck(gameState) # gameState
    /\ gameState' = stopDuck(gameState)
    /\ intents' = intents + 1
    /\ UNCHANGED <<frames, nextId, effects, others>>

GameLoop ==
    /\ frames > 0
    /\ \E d \in drawsOf(gameState) :
         \E r \in {gameLoop(gameState, d, nextId)} :
             /\ gameState' = r.gs
             /\ effects' = r.log
             /\ nextId' = nextId + OnCount(d)
    /\ frames' = frames - 1
    /\ UNCHANGED <<intents, others>>

Next ==
    \/ StartGame
    \/ TogglePause
    \/ Jump
    \/ StartDuck
    \/ StopDuck
    \/ GameLoop

Spec == Init /\ [][Next]_vars

-----------------------------------------------------------------------------
\* Runs in progress.  The first entity a run can meet is 860 units from the
\* horse (createInitialObjects), over 200 frames away, and the terrain the
\* spawner creates later still.  SpecPlay starts from states of a run in
\* progress instead: the horse running on the ground, one spawn group about
\* to reach it, and the frontier entity of the next group behind it.  An
\* entity has the extents, height and offset in its group that its generator
\* gives it; distance, speedFactor and speed are those of one frame.

\* the state a frame leaves when it ran on distance dPrev with speedBoost
\* boost + 0.02 (boost > 0) or with speed at most baseSpeed (boost <= 0)
runningState(dPrev, boost, score, objs) ==
    LET sf == speedFactorOf(dPrev)
        speed == IF boost > 0 THEN ((INITIAL_SPEED + boost) * sf) \div 10000
                 ELSE (INITIAL_SPEED * sf) \div 10000
    IN  [horse |-> spawnPose, gameObjects |-> objs,
         speed |-> speed, baseSpeed |-> INITIAL_SPEED,
         speedBoost |-> boost, speedFactor |-> sf,
         score |-> score, distance |-> dPrev + (speed \div 2000), keys |-> 0,
         gameRunning |-> TRUE, gameStarted |-> TRUE, gamePaused |-> FALSE]

\* a fruit already collected and about to leave the screen, then the group
passedFruit == [generateFruit(1, -95000, 2, 0) EXCEPT !.collected = TRUE]

\* the next group's fruit, one spacing and more behind the near group
frontierFruit(id, x) == generateFruit(id, x, 2, 0)

\* a group of collectibles whose fruit is 10 units ahead of the horse
collectScene(x) ==
    <<passedFruit,
      generateFruit(2, 150000, 1, 0),
      generateMushroom(3, 150000 + 25000, 1, 0),
      generateKey(4, 150000 + 50000, 0),
      generateStar(5, 150000),
      frontierFruit(6, x)>>

\* a group in which the fruit test failed: mushroom, key and star
mushroomScene(x) ==
    <<passedFruit,
      generateMushroom(2, 125000 + 25000, 1, 0),
      generateKey(3, 125000 + 50000, 0),
      generateStar(4, 125000),
      frontierFruit(5, x)>>

\* a group of which only the terrain (at spawnX + 100) is still ahead
terrainScene(kind, x) ==
    <<passedFruit,
      generateTerrain(2, 50000, kind, 999, 0, 1),
      frontierFruit(3, x)>>

\* a water hole, and behind it the next group at the smallest spacing the
\* spawner leaves at speedFactor sf: its fruit and a wall
waterScene(sf) ==
    <<generateTerrain(1, 50000, 1, 0, 0, 1),
      generateFruit(2, 150000 + spacingOf(sf), 1, 0),
      generateTerrain(3, 150000 + spacingOf(sf), 4, 0, 0, 1)>>

PlayStates ==
    {runningState(1000, 0, 0, terrainScene(k, 1150000)) : k \in 2..8}
    \cup {runningState(1000, 0, 0, waterScene(speedFactorOf(1000))),
          runningState(7500, 0, 0, waterScene(speedFactorOf(7500))),
          runningState(1000, 0, 0, collectScene(1150000)),
          runningState(7400, 2600, 80, collectScene(1300000)),
          runningState(7500, -750, 0, mushroomScene(1300000))}

InitPlay ==
    /\ gameState \in PlayStates
    /\ frames = IF gameState.gameObjects[1].type = "waterHole" THEN MaxFrames ELSE ShortRun
    /\ intents = 0
    /\ nextId = Len(gameState.gameObjects) + 1
    /\ effects = <<>>
    /\ NoScores
    /\ NoCalls
    /\ NoLoop

\* the steps of a run in progress: frames, the horse's intents and a restart
NextPlay ==
    \/ StartGame
    \/ Jump
    \/ StartDuck
    \/ StopDuck
    \/ GameLoop

SpecPlay == InitPlay /\ [][NextPlay]_vars

\* Runs in progress with the pause: one running towards collectibles and one
\* paused in front of a low barrier, and all the steps of Next.
pausedState(gs) == [gs EXCEPT !.gamePaused = TRUE]

PauseStates ==
    {runningState(1000, 0, 0, collectScene(1150000)),
     pausedState(runningState(1100, 0, 0, terrainScene(2, 1150000)))}

InitPause ==
    /\ gameState \in PauseStates
    /\ frames = ShortRun
    /\ intents = 0
    /\ nextId = Len(gameState.gameObjects) + 1
    /\ effects = <<>>
    /\ NoScores
    /\ NoCalls
    /\ NoLoop

SpecPause == InitPause /\ [][Next]_vars

-----------------------------------------------------------------------------
\* utils/highScores.ts and submitHighScore of HorseRunnerGame.tsx.  An entry
\* is [name, score, distance]; its date string plays no part and is left out.

\* the submissions of a session
MaxSubmits == 3

MAX_HIGH_SCORES == 5

\* Array.prototype.slice(0, n)
slice(scores, n) == SubSeq(scores, 1, Min(n, Len(scores)))

\* e put behind the entries of the sorted list whose score is not lower
RECURSIVE insertByScore(_, _)
insertByScore(sorted, e) ==
    IF sorted = <<>> THEN <<e>>
    ELSE IF Head(sorted).score >= e.score
         THEN <<Head(sorted)>> \o insertByScore(Tail(sorted), e)
         ELSE <<e>> \o sorted

\* scores.sort((a, b) => b.score - a.score): descending, stable
RECURSIVE sortByScore(_)
sortByScore(scores) ==
    IF scores = <<>> THEN <<>>
    ELSE insertByScore(sortByScore(SubSeq(scores, 1, Len(scores) - 1)),
                       scores[Len(scores)])

\* a version that pushes onto the array passed in and sorts it in place
addHighScoreInPlace(currentScores, newScore) ==
    [returned |-> slice(sortByScore(Append(currentScores, newScore)), MAX_HIGH_SCORES),
     currentScores |-> sortByScore(Append(currentScores, newScore))]

\* returned: the list the call returns; currentScores: the array passed in,
\* as the call leaves it (the call sorts a copy, [...currentScores, newScore])
addHighScore(currentScores, newScore) ==
    [returned |-> slice(sortByScore(Append(currentScores, newScore)), MAX_HIGH_SCORES),
     currentScores |-> currentScores]

\* what saveHighScores writes under HIGH_SCORES_KEY
saveHighScores(scores) == slice(sortByScore(scores), MAX_HIGH_SCORES)

\* loadHighScores on a storage holding the list stored
loadHighScores(stored, lastPlayerName) ==
    [scores |-> slice(stored, MAX_HIGH_SCORES), lastPlayerName |-> lastPlayerName]

\* String.prototype.trim on the names the model enters
trim(name) == IF name = " " THEN "" ELSE name

PlayerNames == {"", " ", "Ann", "Bo"}

submitHighScore(gs, hs, playerName) ==
    LET newHighScore == [name |-> IF trim(playerName) # "" THEN trim(playerName)
                                  ELSE "Anonymous",
                         score |-> gs.score,
                         distance |-> gs.distance]
        r == addHighScore(hs.scores, newHighScore)
    IN  [state |-> [scores |-> r.returned,
                    lastPlayerName |-> IF trim(playerName) # "" THEN trim(playerName)
                                       ELSE hs.lastPlayerName],
         call |-> [passed |-> hs.scores, entry |-> newHighScore,
                   returned |-> r.returned, passedAfter |-> r.currentScores,
                   stored |-> saveHighScores(r.returned)]]

\* the player enters a name on the game-over screen
SubmitHighScore ==
    /\ intents < MaxSubmits
    /\ gameState.gameStarted /\ ~gameState.gameRunning
    /\ \E playerName \in PlayerNames :
         \E r \in {submitHighScore(gameState, highScoreState, playerName)} :
            /\ highScoreState' = r.state
            /\ submitted' = <<r.call>>
    /\ intents' = intents + 1
    /\ UNCHANGED <<gameState, frames, nextId, effects, spawned, generated, updated, updater, loopVars>>

\* a finished run with the given score
finishedState(score, distance) ==
    [runningState(distance, 0, score, <<>>) EXCEPT !.gameRunning = FALSE]

FinishedStates ==
    {finishedState(0, 40), finishedState(20, 300), finishedState(35, 520),
     finishedState(60, 1000)}

\* the lists a storage can hold: none, and five entries saved earlier
StoredScores ==
    {<<>>,
     <<[name |-> "Ann", score |-> 50, distance |-> 900],
       [name |-> "Bo", score |-> 35, distance |-> 500],
       [name |-> "Ann", score |-> 35, distance |-> 450],
       [name |-> "Anonymous", score |-> 20, distance |-> 310],
       [name |-> "Bo", score |-> 10, distance |-> 120]>>}

InitScores ==
    /\ gameState \in FinishedStates
    /\ frames = 0
    /\ intents = 0
    /\ nextId = 1
    /\ effects = <<>>
    /\ \E stored \in StoredScores : highScoreState = loadHighScores(stored, "")
    /\ submitted = <<>>
    /\ NoCalls
    /\ NoLoop

NextScores == SubmitHighScore

SpecScores == InitScores /\ [][NextScores]_vars

-----------------------------------------------------------------------------
(***************************************************************************)
(* ObjectSpawner: the weighted spawn tables.  Weights are in hundredths.   *)
(* Math.random is drawn from the hundred cells [r/100, (r+1)/100) of       *)
(* [0,1): a value inside cell r is <= a sum of weights s exactly when      *)
(* r < s, so the number of cells selecting an entry is the size, in        *)
(* hundredths, of the set of draws that select it.                         *)
(***************************************************************************)
MUSHROOM_SPAWN_CHANCE == 15
KEY_SPAWN_CHANCE == 8
TERRAIN_CHANCE == 75

Cells == 0..99

collectibleTable ==
    <<[name |-> "fruit", weight |-> 70, offset |-> 0],
      [name |-> "mushroom", weight |-> MUSHROOM_SPAWN_CHANCE, offset |-> 25],
      [name |-> "key", weight |-> KEY_SPAWN_CHANCE, offset |-> 50],
      [name |-> "star", weight |-> 20, offset |-> 0]>>

terrainTable ==
    <<[name |-> "waterHole", weight |-> 7, offset |-> 100],
      [name |-> "lowBarrier", weight |-> 9, offset |-> 100],
      [name |-> "highBarrier", weight |-> 7, offset |-> 100],
      [name |-> "obstacle", weight |-> 7, offset |-> 100],
      [name |-> "platform1", weight |-> 13, offset |-> 100],
      [name |-> "platform2", weight |-> 13, offset |-> 100],
      [name |-> "platform3", weight |-> 11, offset |-> 100],
      [name |-> "floatingPlatformWithApples", weight |-> 18, offset |-> 100]>>

RECURSIVE currentWeightAt(_, _)
\* currentWeight after the loop has added the first k entries
currentWeightAt(table, k) ==
    IF k = 0 THEN 0 ELSE currentWeightAt(table, k - 1) + table[k].weight

\* the index of the entry returned for a draw in cell `random`; 0 is null
selectFromTable(table, random) ==
    LET hits == {k \in 1..Len(table) : random < currentWeightAt(table, k)}
    IN  IF hits = {} THEN 0 ELSE CHOOSE k \in hits : \A j \in hits : k <= j

\* generateObjects: r1 selects the collectible, r2 is the terrain test and,
\* when it passes, r3 selects the terrain entry
generateObjects(r1, r2, r3) ==
    IF r2 < TERRAIN_CHANCE
    THEN [random |-> <<r1, r2, r3>>,
          collectible |-> selectFromTable(collectibleTable, r1),
          terrain |-> selectFromTable(terrainTable, r3)]
    ELSE [random |-> <<r1, r2>>,
          collectible |-> selectFromTable(collectibleTable, r1),
          terrain |-> 0]

\* the values of the terrain test the model draws: both sides of 0.75
TestCells == {0, TERRAIN_CHANCE - 1, TERRAIN_CHANCE, 99}

\* one call on a new spawner: the tables never change, so a later call
\* selects as the first does
GenerateObjects ==
    /\ spawned = <<>>
    /\ \E r1 \in Cells, r2 \in TestCells, r3 \in Cells :
          spawned' = <<generateObjects(r1, r2, r3)>>
    /\ UNCHANGED <<gameState, frames, intents, nextId, effects, highScoreState,
                   submitted, generated, updated, updater, loopVars>>

NextSpawner == GenerateObjects

SpecSpawner == Init /\ [][NextSpawner]_vars

-----------------------------------------------------------------------------
(***************************************************************************)
(* The generators of objects/terrain.ts, objects/collectibles.ts and       *)
(* objects/obstacles.ts.  `f`, `g`, `h` are the values of Math.random(), in *)
(* thousandths; an absent platformLevel is written 0 and an absent         *)
(* isRideable FALSE; rampSlope is not modelled.                            *)
(***************************************************************************)
TerrainObjects_generatePlatform(id, spawnX, level, f) ==
    Entity(id, "platform", spawnX, GROUND_Y - 40000 * level,
           40000 + f * 100, 40000 * level, level, TRUE)

TerrainObjects_generateFloatingPlatform(id, spawnX, f, g, h) ==
    LET level == 1 + (g * 3) \div 1000
        floatingHeight == 40000 * level + 20000 + h * 30
    IN  Entity(id, "floatingPlatform", spawnX, GROUND_Y - floatingHeight,
               60000 + f * 80, 25000, level, TRUE)

TerrainObjects_generateRamp(id, spawnX, f, g) ==
    Entity(id, "ramp", spawnX, GROUND_Y - (20000 + g * 20),
           80000 + f * 40, 20000 + g * 20, 0, TRUE)

TerrainObjects_generateBridge(id, spawnX, f, g) ==
    Entity(id, "bridge", spawnX, GROUND_Y - 40000 - g * 30,
           100000 + f * 60, 15000, 0, TRUE)

TerrainObjects_generateLogPile(id, spawnX, f, g) ==
    Entity(id, "logPile", spawnX, GROUND_Y - (25000 + g * 15),
           70000 + f * 30, 25000 + g * 15, 0, FALSE)

CollectibleObjects_generateFruit(id, spawnX, f, g) ==
    LET fruitY == IF f < 300 THEN GROUND_Y - 25000 - g * 15
                  ELSE IF f < 700 THEN GROUND_Y - 45000 - g * 20
                  ELSE GROUND_Y - 80000 - g * 35
    IN  Entity(id, "fruit", spawnX, fruitY, 25000, 25000, 0, FALSE)

CollectibleObjects_generateStar(id, spawnX, f) ==
    Entity(id, "star", spawnX, GROUND_Y - 60000 - f * 40, 30000, 30000, 0, FALSE)

CollectibleObjects_generateKey(id, spawnX, f) ==
    Entity(id, "key", spawnX, GROUND_Y - 35000 - f * 20, 20000, 20000, 0, FALSE)

CollectibleObjects_generateMushroom(id, spawnX, f) ==
    Entity(id, "mushroom", spawnX, GROUND_Y - 25000 - f * 10, 25000, 25000,
           0, FALSE)

ObstacleObjects_generateWaterHole(id, spawnX, f) ==
    Entity(id, "waterHole", spawnX, GROUND_Y, 60000 + f * 30, 100000, 0, FALSE)

ObstacleObjects_generateLowBarrier(id, spawnX, f, g) ==
    Entity(id, "lowBarrier", spawnX, GROUND_Y - (30000 + g * 15),
           20000 + f * 20, 30000 + g * 15, 0, FALSE)

ObstacleObjects_generateHighBarrier(id, spawnX, f, g) ==
    Entity(id, "highBarrier", spawnX, GROUND_Y - (60000 + g * 20),
           15000 + f * 15, 60000 + g * 20, 0, FALSE)

ObstacleObjects_generateObstacle(id, spawnX, f, g) ==
    Entity(id, "obstacle", spawnX, GROUND_Y - (50000 + g * 20),
           20000 + f * 15, 50000 + g * 20, 0, FALSE)

\* the values of Math.random() and of spawnX the generator calls are given
Fractions == {0, 299, 300, 699, 700, 999}

SpawnXs == {GAME_WIDTH + SPAWN_MIN_MARGIN, GAME_WIDTH + 250000}

GenerateTerrainObject ==
    /\ \E spawnX \in SpawnXs, f \in {0, 999}, g \in Fractions, h \in {0, 999} :
          \E e \in {TerrainObjects_generatePlatform(1, spawnX, 1, f),
                    TerrainObjects_generatePlatform(1, spawnX, 2, f),
                    TerrainObjects_generatePlatform(1, spawnX, 3, f),
                    TerrainObjects_generateFloatingPlatform(1, spawnX, f, g, h),
                    TerrainObjects_generateRamp(1, spawnX, f, g),
                    TerrainObjects_generateBridge(1, spawnX, f, g),
                    TerrainObjects_generateLogPile(1, spawnX, f, g)} :
              generated' = <<e>>
    /\ UNCHANGED <<gameState, frames, intents, nextId, effects, highScoreState,
                   submitted, spawned, updated, updater, loopVars>>

GenerateCollectibleObject ==
    /\ \E spawnX \in SpawnXs, f \in Fractions, g \in {0, 999} :
          \E e \in {CollectibleObjects_generateFruit(1, spawnX, f, g),
                    CollectibleObjects_generateStar(1, spawnX, f),
                    CollectibleObjects_generateKey(1, spawnX, f),
                    CollectibleObjects_generateMushroom(1, spawnX, f)} :
              generated' = <<e>>
    /\ UNCHANGED <<gameState, frames, intents, nextId, effects, highScoreState,
                   submitted, spawned, updated, updater, loopVars>>

GenerateObstacleObject ==
    /\ \E spawnX \in SpawnXs, f \in {0, 999}, g \in {0, 999} :
          \E e \in {ObstacleObjects_generateWaterHole(1, spawnX, f),
                    ObstacleObjects_generateLowBarrier(1, spawnX, f, g),
                    ObstacleObjects_generateHighBarrier(1, spawnX, f, g),
                    ObstacleObjects_generateObstacle(1, spawnX, f, g)} :
              generated' = <<e>>
    /\ UNCHANGED <<gameState, frames, intents, nextId, effects, highScoreState,
                   submitted, spawned, updated, updater, loopVars>>

\* the generators of utils/gameLogic.ts, which the game component calls
GenerateGameLogicObject ==
    /\ \E spawnX \in SpawnXs, b \in 1..3, kind \in 1..8, f \in {0, 999},
          g \in {0, 999}, level \in 1..3 :
          \E e \in {generateFruit(1, spawnX, b, f),
                    generateTerrain(1, spawnX, kind, f, g, level),
                    generateStar(1, spawnX),
                    generateMushroom(1, spawnX, b, f),
                    generateKey(1, spawnX, f)} :
              generated' = <<e>>
    /\ UNCHANGED <<gameState, frames, intents, nextId, effects, highScoreState,
                   submitted, spawned, updated, updater, loopVars>>

NextGenerators ==
    \/ GenerateTerrainObject
    \/ GenerateCollectibleObject
    \/ GenerateObstacleObject
    \/ GenerateGameLogicObject

SpecGenerators == Init /\ [][NextGenerators]_vars

-----------------------------------------------------------------------------
(***************************************************************************)
(* GameObjectsManager.updateObjects.  An array is modelled by its          *)
(* elements; `sameArray` tells whether the array returned is the array     *)
(* passed in.  newObjects is null (isNull) until the first change.         *)
(***************************************************************************)
MaxObjects == 3

\* the order of the game loop instead: move every entity, then filter
updateObjectsMoveFirst(objects, speed, isBlocked) ==
    LET moved == SelectSeq(IF isBlocked THEN objects
                           ELSE shiftAll(objects, 1, speed), onScreen)
    IN  [array |-> moved, sameArray |-> moved = objects]

RECURSIVE updateObjectsFrom(_, _, _, _, _)
\* the for loop from index i on, with the loop's newObjects and hasChanges
updateObjectsFrom(objects, speed, isBlocked, i, st) ==
    IF i > Len(objects) THEN st
    ELSE
      LET obj == objects[i]
          started == IF st.isNull
                     THEN [isNull |-> FALSE, newObjects |-> SubSeq(objects, 1, i - 1),
                           hasChanges |-> TRUE]
                     ELSE st
          newX == obj.x - speed
          pushObj == IF st.isNull THEN st
                     ELSE [st EXCEPT !.newObjects = Append(@, obj)]
          next ==
            IF obj.x <= OFFSCREEN_X THEN started
            ELSE IF ~isBlocked
                 THEN IF newX # obj.x
                      THEN [started EXCEPT
                              !.newObjects = Append(@, [obj EXCEPT !.x = newX])]
                      ELSE pushObj
                 ELSE pushObj
      IN  updateObjectsFrom(objects, speed, isBlocked, i + 1, next)

updateObjects(objects, speed, isBlocked) ==
    LET st == updateObjectsFrom(objects, speed, isBlocked, 1,
                                [isNull |-> TRUE, newObjects |-> <<>>,
                                 hasChanges |-> FALSE])
    IN  IF st.hasChanges
        THEN [array |-> st.newObjects, sameArray |-> FALSE]
        ELSE [array |-> objects, sameArray |-> TRUE]

\* the positions of the entities passed in: off-screen, on the removal
\* boundary, just inside it, and on screen
ObjectXs == {-150000, OFFSCREEN_X, -99000, 400000}

ObjectTypes == <<"fruit", "platform", "obstacle", "star">>

\* the arrays of n entities at the given positions
ObjectArrays(n) ==
    {[i \in 1..n |->
        Entity(i, ObjectTypes[i], xs[i], GROUND_Y - 40000, 20000, 40000,
               IF ObjectTypes[i] = "platform" THEN 1 ELSE 0,
               ObjectTypes[i] = "platform")] : xs \in [1..n -> ObjectXs]}

UpdateObjects ==
    /\ \E n \in 0..MaxObjects, speed \in {0, INITIAL_SPEED}, isBlocked \in BOOLEAN :
          \E objects \in ObjectArrays(n) :
              LET r == updateObjects(objects, speed, isBlocked)
              IN  updated' = <<[objects |-> objects, speed |-> speed,
                                isBlocked |-> isBlocked, array |-> r.array,
                                sameArray |-> r.sameArray]>>
    /\ UNCHANGED <<gameState, frames, intents, nextId, effects, highScoreState,
                   submitted, spawned, generated, updater, loopVars>>

NextManager == UpdateObjects

SpecManager == Init /\ [][NextManager]_vars

-----------------------------------------------------------------------------
(***************************************************************************)
(* GameStateUpdater.  A Partial<Horse> or Partial<GameState> is a function *)
(* on the fields it has; an argument that is undefined is a field the      *)
(* argument record does not have.  f @@ g is {...g, ...f}.                 *)
(***************************************************************************)
MaxCalls == 3

\* constructor (with reset)
newUpdater(currentState) ==
    [currentState |-> currentState, hasChanges |-> FALSE,
     horseChanges |-> <<>>, stateChanges |-> <<>>,
     calls |-> 0, applied |-> currentState]

\* the fields of `args` whose value is defined and differs from `current`
changedFields(args, current) == {f \in DOMAIN args : args[f] # current[f]}

\* updateHorsePosition and updateHorseStates: the same test and assignment
\* for each of their fields
updateHorse(u, args) ==
    LET written == changedFields(args, u.currentState.horse)
    IN  [u EXCEPT !.horseChanges = [f \in written |-> args[f]] @@ @,
                  !.hasChanges = @ \/ written # {}]

updateHorsePosition(u, args) == updateHorse(u, args)

updateHorseStates(u, states) == updateHorse(u, states)

updateGameStats(u, updates) ==
    LET written == changedFields(updates, u.currentState)
    IN  [u EXCEPT !.stateChanges = [f \in written |-> updates[f]] @@ @,
                  !.hasChanges = @ \/ written # {}]

getUpdatedState(u) ==
    IF ~u.hasChanges THEN u.currentState
    ELSE LET newState == u.stateChanges @@ u.currentState
         IN  IF DOMAIN u.horseChanges # {}
             THEN [newState EXCEPT !.horse = u.horseChanges @@ u.currentState.horse]
             ELSE newState

getCurrentHorse(u) == u.horseChanges @@ u.currentState.horse

\* the call counted, and its partial update applied to the state the calls
\* before it led to
horseCall(u, args) ==
    [u EXCEPT !.calls = @ + 1, !.applied.horse = args @@ @]

statsCall(u, updates) ==
    [u EXCEPT !.calls = @ + 1, !.applied = updates @@ @]

\* updateHorsePhysics, its gravity step (no platform among the entities)
updateHorsePhysics(u, horse) ==
    IF ~horse.isDrowning
    THEN LET currentHorse == getCurrentHorse(u)
             newVelocityY == currentHorse.velocityY + GRAVITY
             newY == currentHorse.y + newVelocityY
             args == [y |-> newY, velocityY |-> newVelocityY]
         IN  horseCall(updateHorsePosition(u, args), args)
    ELSE u

updateGroundCollision(u, horse, landedOnPlatform) ==
    IF ~landedOnPlatform /\ ~horse.isDrowning
    THEN LET currentHorse == getCurrentHorse(u)
             targetGroundY == GROUND_Y - horseHeightOf(currentHorse)
             args == [y |-> targetGroundY, velocityY |-> 0]
             states == [isJumping |-> FALSE, currentPlatformLevel |-> 0]
         IN  IF currentHorse.y >= targetGroundY
             THEN horseCall(updateHorseStates(
                      horseCall(updateHorsePosition(u, args), args), states), states)
             ELSE u
    ELSE u

\* the arguments the calls are made with
PositionArgs ==
    {[y |-> GROUND_Y - HORSE_HEIGHT], [y |-> GROUND_Y - HORSE_HEIGHT - 20000],
     [y |-> GROUND_Y - HORSE_HEIGHT, velocityY |-> 0],
     [y |-> GROUND_Y - HORSE_HEIGHT - 20000, velocityY |-> JUMP_FORCE],
     [x |-> HORSE_X, y |-> GROUND_Y - DUCK_HEIGHT, velocityY |-> GRAVITY]}

StateArgs ==
    {[isJumping |-> TRUE], [isJumping |-> FALSE, currentPlatformLevel |-> 0],
     [isJumping |-> FALSE, currentPlatformLevel |-> 1],
     [isBlocked |-> TRUE], [isBlocked |-> FALSE], [isDucking |-> TRUE]}

StatsArgs ==
    {[speed |-> INITIAL_SPEED], [speed |-> 2800], [score |-> 10],
     [score |-> 0, keys |-> 1], [gameRunning |-> FALSE]}

NewUpdater ==
    /\ updater = <<>>
    /\ updater' = <<newUpdater(gameState)>>
    /\ UNCHANGED <<gameState, frames, intents, nextId, effects, highScoreState,
                   submitted, spawned, generated, updated, loopVars>>

UpdateHorsePosition ==
    /\ updater # <<>> /\ updater[1].calls < MaxCalls
    /\ \E args \in PositionArgs :
          updater' = <<horseCall(updateHorsePosition(updater[1], args), args)>>
    /\ UNCHANGED <<gameState, frames, intents, nextId, effects, highScoreState,
                   submitted, spawned, generated, updated, loopVars>>

UpdateHorseStates ==
    /\ updater # <<>> /\ updater[1].calls < MaxCalls
    /\ \E states \in StateArgs :
          updater' = <<horseCall(updateHorseStates(updater[1], states), states)>>
    /\ UNCHANGED <<gameState, frames, intents, nextId, effects, highScoreState,
                   submitted, spawned, generated, updated, loopVars>>

UpdateGameStats ==
    /\ updater # <<>> /\ updater[1].calls < MaxCalls
    /\ \E updates \in StatsArgs :
          updater' = <<statsCall(updateGameStats(updater[1], updates), updates)>>
    /\ UNCHANGED <<gameState, frames, intents, nextId, effects, highScoreState,
                   submitted, spawned, generated, updated, loopVars>>

UpdateHorsePhysics ==
    /\ updater # <<>> /\ updater[1].calls < MaxCalls
    /\ updater' = <<updateHorsePhysics(updater[1], updater[1].currentState.horse)>>
    /\ UNCHANGED <<gameState, frames, intents, nextId, effects, highScoreState,
                   submitted, spawned, generated, updated, loopVars>>

UpdateGroundCollision ==
    /\ updater # <<>> /\ updater[1].calls + 1 < MaxCalls
    /\ updater' = <<updateGroundCollision(updater[1],
                                          updater[1].currentState.horse, FALSE)>>
    /\ updater' # updater
    /\ UNCHANGED <<gameState, frames, intents, nextId, effects, highScoreState,
                   submitted, spawned, generated, updated, loopVars>>

NextUpdater ==
    \/ NewUpdater
    \/ UpdateHorsePosition
    \/ UpdateHorseStates
    \/ UpdateGameStats
    \/ UpdateHorsePhysics
    \/ UpdateGroundCollision

SpecUpdater == Init /\ [][NextUpdater]_vars

-----------------------------------------------------------------------------
(***************************************************************************)
(* The game-loop effect and the renders.  setGameState changes the state   *)
(* at once; the closures of the effect, of gameLoop and of the input       *)
(* handlers keep reading the flags of the render they were made in, until  *)
(* React renders again and runs the effects (Commit).  The effect and the  *)
(* key handlers have the three flags among their dependencies, so they     *)
(* are replaced exactly when a render sees a flag changed.                 *)
(***************************************************************************)
MaxPresses == 4
LoopFrames == 8

flagsOf(gs) ==
    [gameStarted |-> gs.gameStarted, gameRunning |-> gs.gameRunning,
     gamePaused |-> gs.gamePaused]

\* the test of the effect body and of gameLoop's "Continue the loop"
loopRuns(flags) == flags.gameStarted /\ flags.gameRunning /\ ~flags.gamePaused

\* a cleanup that leaves the requested callback in place
cancelAnimationFrameNever(ref, callbacks) == callbacks

\* if (gameLoopRef.current) cancelAnimationFrame(gameLoopRef.current)
cancelAnimationFrame(ref, callbacks) ==
    IF ref # 0 THEN {c \in callbacks : c.id # ref} ELSE callbacks

RECURSIVE runCallbacks(_, _)
\* the callbacks of one animation frame, in the order they were requested:
\* each calls setGameState with the frame's updater and requests the next
\* frame when the flags of its closure say so.  No spawn test passes.
runCallbacks(callbacks, acc) ==
    IF callbacks = {} THEN acc
    ELSE LET c == CHOOSE x \in callbacks : \A y \in callbacks : x.id <= y.id
             r == gameLoop(acc.gs, NoDraws, acc.nextId)
             again == loopRuns(c.closure)
         IN  runCallbacks(callbacks \ {c},
                 [gs |-> r.gs, log |-> r.log, nextId |-> acc.nextId,
                  steps |-> acc.steps + (IF skipsFrame(acc.gs) THEN 0 ELSE 1),
                  rafCount |-> acc.rafCount + (IF again THEN 1 ELSE 0),
                  gameLoopRef |-> IF again THEN acc.rafCount + 1 ELSE acc.gameLoopRef,
                  pending |-> IF again
                              THEN acc.pending \cup
                                     {[id |-> acc.rafCount + 1, closure |-> c.closure]}
                              ELSE acc.pending])

\* the browser runs the callbacks requested for this animation frame
AnimationFrame ==
    /\ frames > 0
    /\ pending # {}
    /\ \E r \in {runCallbacks(pending,
                      [gs |-> gameState, log |-> <<>>, nextId |-> nextId, steps |-> 0,
                       rafCount |-> rafCount, gameLoopRef |-> gameLoopRef,
                       pending |-> {}])} :
          /\ gameState' = r.gs
          /\ effects' = r.log
          /\ steps' = r.steps
          /\ rafCount' = r.rafCount
          /\ gameLoopRef' = r.gameLoopRef
          /\ pending' = r.pending
    /\ frames' = frames - 1
    /\ UNCHANGED <<intents, nextId, rendered, highScoreState, submitted, spawned,
                   generated, updated, updater>>

\* React renders with a changed flag and runs the effects: the cleanup of
\* the game-loop effect (or the cancel at the top of its body), then its
\* body; the key handlers are replaced by ones reading the new flags
Commit ==
    /\ flagsOf(gameState) # rendered
    /\ rendered' = flagsOf(gameState)
    /\ LET cancelled == cancelAnimationFrame(gameLoopRef, pending)
       IN  IF loopRuns(flagsOf(gameState))
           THEN /\ pending' = cancelled \cup
                                 {[id |-> rafCount + 1, closure |-> flagsOf(gameState)]}
                /\ gameLoopRef' = rafCount + 1
                /\ rafCount' = rafCount + 1
           ELSE /\ pending' = cancelled
                /\ gameLoopRef' = 0
                /\ rafCount' = rafCount
    /\ UNCHANGED <<gameState, frames, intents, nextId, effects, steps,
                   highScoreState, submitted, spawned, generated, updated, updater>>

\* handleKeyDown, Space or Enter, its two startGame branches; the start
\* screen and the game-over screen are rendered under the same conditions
acceptsStart(flags) ==
    \/ ~flags.gameStarted
    \/ flags.gameStarted /\ ~flags.gameRunning /\ ~flags.gamePaused

\* togglePause: the test reads the render's gameState
acceptsPause(flags) == flags.gameStarted /\ flags.gameRunning

PressStart ==
    /\ intents < MaxPresses
    /\ acceptsStart(rendered)
    /\ gameState' = startGame(gameState)
    /\ intents' = intents + 1
    /\ nextId' = Len(createInitialObjects) + 1
    /\ effects' = <<>>
    /\ UNCHANGED <<frames, others>>

\* Escape, the pause and resume buttons, Space or Enter while paused
PressPause ==
    /\ intents < MaxPresses
    /\ acceptsPause(rendered)
    /\ gameState' = [gameState EXCEPT !.gamePaused = ~gameState.gamePaused]
    /\ intents' = intents + 1
    /\ UNCHANGED <<frames, nextId, effects, others>>

\* the start screen, and a run one frame before the horse meets a wall
LoopStates ==
    {initialGameState, runningState(1000, 0, 0, terrainScene(4, 1150000))}

InitLoop ==
    /\ gameState \in LoopStates
    /\ frames = LoopFrames
    /\ intents = 0
    /\ nextId = Len(gameState.gameObjects) + 1
    /\ effects = <<>>
    /\ NoScores
    /\ NoCalls
    /\ rendered = flagsOf(gameState)
    /\ pending = IF loopRuns(flagsOf(gameState))
                 THEN {[id |-> 1, closure |-> flagsOf(gameState)]} ELSE {}
    /\ gameLoopRef = IF loopRuns(flagsOf(gameState)) THEN 1 ELSE 0
    /\ rafCount = IF loopRuns(flagsOf(gameState)) THEN 1 ELSE 0
    /\ steps = 0

NextLoop ==
    \/ PressStart
    \/ PressPause
    \/ Commit
    \/ AnimationFrame

SpecLoop == InitLoop /\ [][NextLoop]_vars

-----------------------------------------------------------------------------
\* Properties.  `effects` is the dispatch log of the last frame: one entry
\* per call of handleCollisionEffects, with the state before and after it.

Collectibles == {"fruit", "star", "key", "mushroom"}

\* the step is a callback of the game loop that passed its guard
FrameRan ==
    /\ frames' # frames
    /\ gameState.gameStarted /\ gameState.gameRunning /\ ~gameState.gamePaused

\* the step is a start or restart
Restarted == canStart(gameState) /\ gameState' = startGame(gameState)

\* the entries of a dispatch log for the entity id
EntriesOf(log, id) == {k \in 1..Len(log) : log[k].id = id}

\* the entities of a state with identity id
WithId(gs, id) == {i \in 1..Len(gs.gameObjects) : gs.gameObjects[i].id = id}

\* C1: a frame dispatches no collectible that was already marked collected,
\* keeps it marked, and dispatches exactly once the collectible it marks; so
\* over the frames in which the horse keeps overlapping it the effect is
\* applied once.
C1_CollectedOnce ==
    [][FrameRan =>
        \A i \in 1..Len(gameState.gameObjects) :
            LET o == gameState.gameObjects[i]
            IN  o.type \in Collectibles =>
                  /\ o.collected =>
                        /\ EntriesOf(effects', o.id) = {}
                        /\ \A j \in WithId(gameState', o.id) :
                               gameState'.gameObjects[j].collected
                  /\ (~o.collected /\ \E j \in WithId(gameState', o.id) :
                                          gameState'.gameObjects[j].collected)
                        => Cardinality(EntriesOf(effects', o.id)) = 1]_vars

\* C1 witness: the frame after a collection: a collected fruit still
\* overlaps the horse and the last frame dispatched nothing for it.
C1_Witness ==
    /\ gameState.gameRunning
    /\ gameState.score > 0
    /\ \E i \in 1..Len(gameState.gameObjects) :
         LET o == gameState.gameObjects[i]
         IN  /\ o.type = "fruit" /\ o.collected
             /\ checkCollision(gameState.horse, o)
             /\ EntriesOf(effects, o.id) = {}

\* C2: score and distance never decrease, except by a start or restart.
C2_ScoreDistanceMonotone ==
    [][Restarted \/ (/\ gameState'.score >= gameState.score
                     /\ gameState'.distance >= gameState.distance)]_vars

\* C2 witness: a run restarted after a game over (score and distance reset
\* to 0), which has made distance again.
C2_Witness ==
    /\ gameState.gameRunning
    /\ gameState.score = 0
    /\ gameState.distance > 0 /\ gameState.distance < 100
    /\ gameState.gameObjects # <<>>
    /\ gameState.gameObjects[1].x < createInitialObjects[1].x

\* C3: a frame sets speedFactor to min(MAX_SPEED_FACTOR, 1 + distance * rate)
\* of the distance it starts with; no step but a restart lowers it, and it
\* never exceeds MAX_SPEED_FACTOR.
C3_SpeedFactor ==
    [][/\ FrameRan => gameState'.speedFactor = speedFactorOf(gameState.distance)
       /\ Restarted \/ gameState'.speedFactor >= gameState.speedFactor
       /\ gameState'.speedFactor <= MAX_SPEED_FACTOR]_vars

\* C3 witness: the factor has grown to the cap during the run, and the
\* uncapped formula is above the cap.
C3_Witness ==
    /\ gameState.speedFactor = MAX_SPEED_FACTOR
    /\ 10000 + gameState.distance * SPEED_FACTOR_INCREASE_RATE > MAX_SPEED_FACTOR + 100
    /\ gameState.score > 80

\* C4: speedBoost is always within [-1.0, FRUIT_SPEED_BOOST_MAX].
C4_BoostBounds ==
    /\ gameState.speedBoost >= MUSHROOM_MIN_BOOST
    /\ gameState.speedBoost <= FRUIT_SPEED_BOOST_MAX

\* C4 witness: a mushroom dispatched when the reduction would take the
\* boost under the floor: the boost is the floor.
C4_Witness ==
    \E k \in 1..Len(effects) :
        /\ effects[k].type = "mushroom"
        /\ effects[k].before.speedBoost - scaledReductionOf(effects[k].before.speedFactor)
             < MUSHROOM_MIN_BOOST
        /\ gameState.speedBoost = MUSHROOM_MIN_BOOST

\* C5: a frame that resolves the horse as blocked (the isBlocked the world
\* shift and the distance accrual read) leaves the x of every entity it keeps
\* as it was, and does not increase distance.
C5_BlockFreezesWorld ==
    [][(FrameRan /\ gameState'.horse.isBlocked) =>
        /\ gameState'.distance <= gameState.distance
        /\ \A i \in 1..Len(gameState.gameObjects) :
              \A j \in WithId(gameState', gameState.gameObjects[i].id) :
                  gameState'.gameObjects[j].x = gameState.gameObjects[i].x]_vars

\* C5 witness: the horse stands blocked at a platform wall, entities ahead.
C5_Witness ==
    /\ gameState.gameRunning
    /\ gameState.horse.isBlocked /\ ~gameState.horse.isDrowning
    /\ \E i \in 1..Len(gameState.gameObjects) :
          gameState.gameObjects[i].x > gameState.horse.x + HORSE_WIDTH

\* C6: a dispatch of a lowBarrier leaves the state (gameRunning with it) as
\* it was if the horse is ducking, and the same dispatch with isDucking false
\* ends the game; a dispatch with the horse not ducking ends the game.
C6_DuckAvoidance ==
    \A k \in 1..Len(effects) :
        LET e == effects[k]
        IN  e.type = "lowBarrier" =>
              IF e.before.horse.isDucking
              THEN /\ e.after = e.before
                   /\ ~handleCollisionEffects(
                          [e.before EXCEPT !.horse.isDucking = FALSE], e).gameRunning
              ELSE ~e.after.gameRunning

\* C6 witness: a lowBarrier was dispatched with the horse ducking and the
\* game goes on.
C6_Witness ==
    /\ gameState.gameRunning
    /\ \E k \in 1..Len(effects) :
          /\ effects[k].type = "lowBarrier"
          /\ effects[k].before.horse.isDucking
          /\ effects[k].before.gameRunning

\* C7: while the horse is drowning the game is running exactly if
\* drowningTimer < DROWNING_ANIMATION_DURATION; each frame of a drowning horse
\* adds 16 to the timer and keeps it drowning, whatever collides and whatever
\* intent was issued; no intent changes the timer or the running flag.
C7_DrowningTiming ==
    [][/\ gameState'.horse.isDrowning =>
            (gameState'.gameRunning <=>
                gameState'.horse.drowningTimer < DROWNING_ANIMATION_DURATION)
       /\ (gameState.horse.isDrowning /\ gameState.gameRunning) =>
            IF FrameRan
            THEN /\ gameState'.horse.isDrowning
                 /\ gameState'.horse.drowningTimer
                       = gameState.horse.drowningTimer + FRAME_MS
            ELSE /\ gameState'.horse.isDrowning
                 /\ gameState'.horse.drowningTimer = gameState.horse.drowningTimer
                 /\ gameState'.gameRunning]_vars

\* C7 witness: the game over of a drowning during which the player jumped.
C7_Witness ==
    /\ gameState.horse.isDrowning /\ gameState.horse.isJumping
    /\ gameState.horse.drowningTimer >= DROWNING_ANIMATION_DURATION
    /\ ~gameState.gameRunning

\* the horse rests on obj after the frame
RestsOn(gs, obj) ==
    /\ gs.horse.y = obj.y - horseHeightOf(gs.horse)
    /\ gs.horse.velocityY = 0
    /\ ~gs.horse.isJumping
    /\ gs.horse.currentPlatformLevel = obj.platformLevel

\* C8 as stated: in a frame, a horse that (after gravity) has velocityY >= 0,
\* overlaps a rideable entity horizontally and has its bottom edge in the
\* landing band ends the frame resting on it; with velocityY < 0 in the same
\* place it is not moved onto it.
C8_RideableLanding ==
    [][FrameRan =>
        \A i \in 1..Len(gameState.gameObjects) :
            LET o == gameState.gameObjects[i]
                h1 == integrateGravity(gameState.horse)
            IN  o.isRideable =>
                  /\ checkPlatformLanding(h1, o) => RestsOn(gameState', o)
                  /\ (h1.velocityY < 0
                       /\ checkPlatformLanding([h1 EXCEPT !.velocityY = 0], o))
                        => /\ gameState'.horse.y = h1.y
                           /\ gameState'.horse.velocityY = h1.velocityY]_vars

\* C8 for the entities of type 'platform' only (the test of the platform
\* pass): the same statement holds.
C8_PlatformLanding ==
    [][FrameRan =>
        \A i \in 1..Len(gameState.gameObjects) :
            LET o == gameState.gameObjects[i]
                h1 == integrateGravity(gameState.horse)
            IN  isPlatformEntity(o) =>
                  /\ checkPlatformLanding(h1, o) => RestsOn(gameState', o)
                  /\ (h1.velocityY < 0
                       /\ checkPlatformLanding([h1 EXCEPT !.velocityY = 0], o))
                        => /\ gameState'.horse.y = h1.y
                           /\ gameState'.horse.velocityY = h1.velocityY]_vars

\* a horse resting on a platform of type 'platform'
C8_PlatformWitness ==
    /\ gameState.gameRunning
    /\ \E i \in 1..Len(gameState.gameObjects) :
          /\ isPlatformEntity(gameState.gameObjects[i])
          /\ RestsOn(gameState, gameState.gameObjects[i])
          /\ gameState.horse.currentPlatformLevel > 0

\* C9: a dispatch of a fruit adds 10 to score and sets speedBoost to
\* min(3.0, speedBoost + 0.5 * speedFactor); of a star adds 50 to score; of a
\* key adds 1 to keys and 25 to score; of a mushroom sets speedBoost to
\* max(-1.0, speedBoost - 0.3 * speedFactor); no other field of the state
\* changes, and the entity is collected.
C9_CollectibleDispatch ==
    \A k \in 1..Len(effects) :
        LET e == effects[k]
            b == e.before
            a == e.after
        IN  /\ e.type = "fruit" =>
                 a = [b EXCEPT !.score = b.score + 10,
                               !.speedBoost = Min(FRUIT_SPEED_BOOST_MAX,
                                   b.speedBoost + boostAmountOf(b.speedFactor))]
            /\ e.type = "star" => a = [b EXCEPT !.score = b.score + 50]
            /\ e.type = "key" =>
                 a = [b EXCEPT !.keys = b.keys + 1, !.score = b.score + 25]
            /\ e.type = "mushroom" =>
                 a = [b EXCEPT !.speedBoost = Max(MUSHROOM_MIN_BOOST,
                                   b.speedBoost - scaledReductionOf(b.speedFactor))]
            /\ e.type \in Collectibles =>
                 /\ WithId(gameState, e.id) # {}
                 /\ \A i \in WithId(gameState, e.id) :
                        gameState.gameObjects[i].collected

\* C9 witness: a fruit dispatched when the step would take the boost over
\* the cap, in the frame that also dispatched nothing else.
C9_Witness ==
    /\ Len(effects) = 1
    /\ effects[1].type = "fruit"
    /\ effects[1].before.speedBoost + boostAmountOf(effects[1].before.speedFactor)
         > FRUIT_SPEED_BOOST_MAX
    /\ effects[1].after.speedBoost = FRUIT_SPEED_BOOST_MAX
    /\ effects[1].after.score = effects[1].before.score + 10

\* the platform pass of the frame on gs reports a wall hit
hitsPlatformWall(gs) ==
    platformPass(gs.gameObjects, 1, gs.horse.isBlocked,
                 [horse |-> integrateGravity(gs.horse), speed |-> gs.speed,
                  landedOnPlatform |-> FALSE, hitPlatformWall |-> FALSE]).hitPlatformWall

\* C10 as stated: the frame in which a horse that was not blocked hits a
\* platform wall ends with speed = max(MIN_SPEED, 0.7 * speed before).
C10_WallPenalty ==
    [][(FrameRan /\ ~gameState.horse.isBlocked /\ hitsPlatformWall(gameState))
         => gameState'.speed = wallPenalty(gameState.speed)]_vars

\* C11: a frame on a blocked, not drowning horse in which no rideable entity
\* satisfies checkPlatformWallCollision leaves the horse not blocked; a
\* frame on a blocked, drowning horse leaves it blocked; no jump or duck
\* intent changes isBlocked.
C11_BlockRecovery ==
    [][/\ (FrameRan /\ gameState.horse.isBlocked) =>
            LET h1 == integrateGravity(gameState.horse)
                noWall == \A i \in 1..Len(gameState.gameObjects) :
                             gameState.gameObjects[i].isRideable =>
                               ~checkPlatformWallCollision(h1, gameState.gameObjects[i])
            IN  /\ (noWall /\ ~gameState.horse.isDrowning)
                      => ~gameState'.horse.isBlocked
                /\ gameState.horse.isDrowning => gameState'.horse.isBlocked
       /\ (~FrameRan /\ ~Restarted)
            => gameState'.horse.isBlocked = gameState.horse.isBlocked]_vars

\* C11 witness: a platform whose front edge is still within the horse's
\* front-edge band eight frames and more into the run (the world stood
\* still at the wall), and the horse is not blocked any more.
C11_Witness ==
    /\ gameState.gameRunning
    /\ ~gameState.horse.isBlocked
    /\ frames <= ShortRun - 8
    /\ \E i \in 1..Len(gameState.gameObjects) :
          /\ isPlatformEntity(gameState.gameObjects[i])
          /\ gameState.gameObjects[i].x > 130000
          /\ gameState.gameObjects[i].x <= 140000

\* C12 as stated: once gameRunning is false, every step that is not a call
\* of startGame (a frame callback, jump, startDuck, stopDuck, togglePause)
\* leaves the state unchanged.
C12_TerminalState ==
    [][(~gameState.gameRunning /\ ~Restarted) => gameState' = gameState]_vars

\* C12 without stopDuck: once gameRunning is false, a frame callback, jump,
\* startDuck and togglePause leave the state unchanged.
C12_TerminalButStopDuck ==
    [][(~gameState.gameRunning /\ ~Restarted)
         => \/ gameState' = gameState
            \/ gameState' = stopDuck(gameState)]_vars

C14_IntentsGuarded ==
    skipsFrame(gameState) =>
        /\ jump(gameState) = gameState
        /\ startDuck(gameState) = gameState
        /\ stopDuck(gameState) = gameState

\* C14 for jump and startDuck only: the statement holds.
C14_JumpDuckGuarded ==
    skipsFrame(gameState) =>
        /\ jump(gameState) = gameState
        /\ startDuck(gameState) = gameState

\* a paused state in which the horse stands on the ground and is not
\* ducking: jump and startDuck would act if they were not guarded
C14_PausedWitness ==
    /\ gameState.gamePaused /\ gameState.gameRunning
    /\ ~gameState.horse.isDucking
    /\ gameState.horse.y = GROUND_Y - HORSE_HEIGHT

\* the horse is in mid-air: more than the jump tolerance above its standing
\* height on the ground, and no rideable entity under it whose top is within
\* the tolerance of its feet (a ducking horse stands up to 10 lower)
Airborne(gs) ==
    /\ gs.gameStarted /\ gs.gameRunning /\ ~gs.gamePaused
    /\ gs.horse.y < GROUND_Y - HORSE_HEIGHT - JUMP_TOLERANCE
    /\ \A i \in 1..Len(gs.gameObjects) :
          LET o == gs.gameObjects[i]
          IN  ~ /\ o.isRideable
                /\ gs.horse.x < o.x + o.width
                /\ gs.horse.x + HORSE_WIDTH > o.x
                /\ gs.horse.y >= o.y - HORSE_HEIGHT - JUMP_TOLERANCE
                /\ gs.horse.y <= o.y - HORSE_HEIGHT + JUMP_TOLERANCE
                                     + (HORSE_HEIGHT - DUCK_HEIGHT)

\* the horse's y is further from the standing height of its
\* currentPlatformLevel than the jump tolerance (plus the 10 of a duck)
OffLevel(horse) ==
    LET slack == JUMP_TOLERANCE + (HORSE_HEIGHT - DUCK_HEIGHT)
    IN  \/ horse.y > expectedYOf(horse) + slack
        \/ horse.y < expectedYOf(horse) - slack

\* C15 as stated: jump() acts only within the tolerance of the standing height
\* of currentPlatformLevel; in a mid-air state (rising, falling, or falling
\* after leaving a platform) away from that height it leaves the state
\* unchanged.
C15_NoMidAirJump ==
    (Airborne(gameState) /\ OffLevel(gameState.horse)) =>
        jump(gameState) = gameState

\* C16 as stated: in every reachable state horse.isDucking and
\* horse.isJumping are not both true.
C16_DuckJumpExclusive ==
    ~(gameState.horse.isDucking /\ gameState.horse.isJumping)

\* C16, the direction the code does enforce: a jump that acts leaves the horse
\* not ducking.
C16_JumpClearsDuck ==
    [][(gameState' = jump(gameState) /\ gameState' # gameState)
        => ~gameState'.horse.isDucking]_vars

\* C17 as stated: in every reachable state no entity of type platform,
\* floatingPlatform or waterHole has collected = true.
C17_TerrainNeverCollected ==
    \A i \in 1..Len(gameState.gameObjects) :
        gameState.gameObjects[i].type \in {"platform", "floatingPlatform", "waterHole"}
            => ~gameState.gameObjects[i].collected

\* C17 for the two types the collision pass exempts
C17_PlatformWaterNeverCollected ==
    \A i \in 1..Len(gameState.gameObjects) :
        gameState.gameObjects[i].type \in {"platform", "waterHole"}
            => ~gameState.gameObjects[i].collected

\* C18: after every processed frame the entity sequence holds no entity whose
\* x is at or below the off-screen threshold -100, and every entity it lost in
\* the frame was one at or below the threshold after the move.
C18_Despawn ==
    [][FrameRan =>
        /\ \A i \in 1..Len(gameState'.gameObjects) :
              gameState'.gameObjects[i].x > OFFSCREEN_X
        /\ \A i \in 1..Len(gameState.gameObjects) :
              LET o == gameState.gameObjects[i]
              IN  (WithId(gameState', o.id) = {}) <=>
                    (\/ (gameState'.horse.isBlocked /\ o.x <= OFFSCREEN_X)
                     \/ (~gameState'.horse.isBlocked
                           /\ o.x - gameState'.speed <= OFFSCREEN_X))]_vars

\* C18: a run in which the frames have removed the first entity
C18_Witness ==
    /\ gameState.gameRunning
    /\ frames < ShortRun
    /\ Len(gameState.gameObjects) > 0
    /\ WithId(gameState, 1) = {}

\* C19: in every reachable state of a started game speed >= MIN_SPEED.
C19_SpeedFloor ==
    gameState.gameStarted => gameState.speed >= MIN_SPEED

\* C19: a run slowed by a mushroom contact and by the natural decay
C19_Witness ==
    /\ gameState.gameRunning
    /\ gameState.speedBoost = MUSHROOM_MIN_BOOST
    /\ gameState.speed < (INITIAL_SPEED * gameState.speedFactor) \div 10000

\* the state gs with the horse's four flags set to the given values
WithFlags(gs, duck, jmp, blk, drown) ==
    [gs EXCEPT !.horse.isDucking = duck, !.horse.isJumping = jmp,
               !.horse.isBlocked = blk, !.horse.isDrowning = drown]

\* C20: a frame that ends with the horse overlapping an entity of type
\* obstacle or highBarrier that was not collected when the frame began ends
\* with gameRunning = false; and the dispatch of such an entity sets
\* gameRunning = false for every combination of the horse's ducking, jumping,
\* blocked and drowning flags.
C20_ObstacleEndsGame ==
    [][/\ FrameRan =>
            \A i \in 1..Len(gameState'.gameObjects) :
                LET o == gameState'.gameObjects[i]
                IN  (/\ o.type \in {"obstacle", "highBarrier"}
                     /\ checkCollision(gameState'.horse, o)
                     /\ \A j \in WithId(gameState, o.id) :
                           ~gameState.gameObjects[j].collected)
                    => ~gameState'.gameRunning
       /\ \A i \in 1..Len(gameState.gameObjects) :
            gameState.gameObjects[i].type \in {"obstacle", "highBarrier"} =>
                \A duck, jmp, blk, drown \in BOOLEAN :
                    ~handleCollisionEffects(
                        WithFlags(gameState, duck, jmp, blk, drown),
                        gameState.gameObjects[i]).gameRunning]_vars

\* C20: a game ended by an obstacle or highBarrier that a ducking horse ran
\* into
C20_Witness ==
    /\ gameState.gameStarted /\ ~gameState.gameRunning
    /\ gameState.horse.isDucking
    /\ \E i \in 1..Len(gameState.gameObjects) :
          /\ gameState.gameObjects[i].type \in {"obstacle", "highBarrier"}
          /\ gameState.gameObjects[i].collected
          /\ checkCollision(gameState.horse, gameState.gameObjects[i])

\* C21: the dispatch of a waterHole on a horse that is not drowning sets
\* isDrowning = true and drowningTimer = 0 and changes nothing else
\* (gameRunning stays as it was); on a drowning horse it changes nothing; a
\* frame dispatches every waterHole its horse overlaps; and a frame of a
\* drowning horse adds the frame step to drowningTimer, which no other step
\* changes.
C21_WaterContact ==
    [][/\ \A k \in 1..Len(effects') :
            LET e == effects'[k]
            IN  e.type = "waterHole" =>
                  IF ~e.before.horse.isDrowning
                  THEN e.after = [e.before EXCEPT !.horse.isDrowning = TRUE,
                                                  !.horse.drowningTimer = 0]
                  ELSE e.after = e.before
       /\ FrameRan =>
            \A i \in 1..Len(gameState'.gameObjects) :
                LET o == gameState'.gameObjects[i]
                IN  (o.type = "waterHole" /\ checkCollision(gameState'.horse, o))
                      => /\ EntriesOf(effects', o.id) # {}
                         /\ gameState'.horse.isDrowning
       /\ (gameState.horse.isDrowning /\ ~Restarted) =>
            /\ gameState'.horse.isDrowning
            /\ gameState'.horse.drowningTimer =
                  IF FrameRan THEN gameState.horse.drowningTimer + FRAME_MS
                  ELSE gameState.horse.drowningTimer]_vars

\* C21: a run in which a waterHole was dispatched on a horse already drowning
C21_Witness ==
    /\ gameState.gameRunning
    /\ \E k \in 1..Len(effects) :
          /\ effects[k].type = "waterHole"
          /\ effects[k].before.horse.isDrowning
          /\ effects[k].before.horse.drowningTimer > 0

\* C21: the frame of the first contact: drowning begun, timer 0, game running
C21_FirstContact ==
    /\ gameState.gameRunning
    /\ gameState.horse.isDrowning /\ gameState.horse.drowningTimer = 0
    /\ \E k \in 1..Len(effects) :
          effects[k].type = "waterHole" /\ ~effects[k].before.horse.isDrowning

\* C22: a start or restart, from the start screen or from the game over of
\* any run, yields gameStarted and gameRunning true, gamePaused false, score,
\* distance and keys 0, speed INITIAL_SPEED, speedBoost 0, speedFactor 1, the
\* horse in its spawn pose with all flags false and drowningTimer 0, and the
\* initial objects; the state is the same whatever the previous run left.
C22_RestartResets ==
    [][Restarted =>
        /\ gameState'.gameStarted /\ gameState'.gameRunning
        /\ ~gameState'.gamePaused
        /\ gameState'.score = 0 /\ gameState'.distance = 0
        /\ gameState'.keys = 0
        /\ gameState'.speed = INITIAL_SPEED
        /\ gameState'.speedBoost = 0
        /\ gameState'.speedFactor = 10000
        /\ gameState'.horse.x = HORSE_X
        /\ gameState'.horse.y = GROUND_Y - HORSE_HEIGHT
        /\ gameState'.horse.velocityY = 0
        /\ gameState'.horse.currentPlatformLevel = 0
        /\ ~gameState'.horse.isDucking /\ ~gameState'.horse.isJumping
        /\ ~gameState'.horse.isBlocked /\ ~gameState'.horse.isDrowning
        /\ gameState'.horse.drowningTimer = 0
        /\ gameState'.gameObjects = createInitialObjects
        /\ gameState' = startGame(initialGameState)]_vars

\* C22: the state right after the restart that follows a finished run
C22_Witness ==
    /\ gameState = startGame(initialGameState)
    /\ intents > 0
    /\ frames < ShortRun

\* how often entry e occurs in the list
CountIn(scores, e) == Cardinality({i \in 1..Len(scores) : scores[i] = e})

\* C23: addHighScore(list, entry) returns at most 5 entries, in descending
\* order of score, taken from list plus entry (none more often than it occurs
\* there), as many as there are up to 5, and every entry left out scores no
\* higher than any entry returned; the list passed in is as it was.
C23_AddHighScore ==
    \A k \in 1..Len(submitted) :
        LET c == submitted[k]
            all == Append(c.passed, c.entry)
            r == c.returned
        IN  /\ Len(r) <= 5
            /\ Len(r) = Min(5, Len(all))
            /\ \A i \in 1..(Len(r) - 1) : r[i].score >= r[i + 1].score
            /\ \A i \in 1..Len(r) : CountIn(r, r[i]) <= CountIn(all, r[i])
            /\ \A i \in 1..Len(all) :
                  CountIn(r, all[i]) < CountIn(all, all[i])
                      => \A j \in 1..Len(r) : r[j].score >= all[i].score
            /\ c.passedAfter = c.passed

\* C23: a call on a full list whose new entry displaced the lowest one
C23_Witness ==
    \E k \in 1..Len(submitted) :
        /\ Len(submitted[k].passed) = 5
        /\ CountIn(submitted[k].returned, submitted[k].entry)
              > CountIn(submitted[k].passed, submitted[k].entry)
        /\ submitted[k].returned[1] # submitted[k].entry

\* C24 as stated: a frame that begins and ends with the horse blocked, and
\* in which nothing is dispatched, changes neither speed nor speedBoost.
C24_NoDecayWhileBlocked ==
    [][(/\ FrameRan
        /\ gameState.horse.isBlocked /\ gameState'.horse.isBlocked
        /\ effects' = <<>>)
        => /\ gameState'.speed = gameState.speed
           /\ gameState'.speedBoost = gameState.speedBoost]_vars

\* the frame dispatched no fruit and no mushroom
NoBoostContact ==
    \A k \in 1..Len(effects') : effects'[k].type \notin {"fruit", "mushroom"}

\* C25 as stated: a frame that ends unblocked and touches no collectible
\* moves a speedBoost that is not 0 strictly toward 0, without crossing it.
C25_BoostDecaysToZero ==
    [][(FrameRan /\ ~gameState'.horse.isBlocked /\ NoBoostContact) =>
        /\ gameState.speedBoost > 0 =>
              (0 <= gameState'.speedBoost
                 /\ gameState'.speedBoost < gameState.speedBoost)
        /\ gameState.speedBoost < 0 =>
              (gameState.speedBoost < gameState'.speedBoost
                 /\ gameState'.speedBoost <= 0)]_vars

\* C25, what the frame does: a positive speedBoost loses the fixed step, a
\* speedBoost that is not positive is left as it is.
C25_BoostStep ==
    [][(FrameRan /\ NoBoostContact) =>
        gameState'.speedBoost =
            IF gameState.speedBoost > 0
            THEN gameState.speedBoost - BOOST_DECAY
            ELSE gameState.speedBoost]_vars

\* C26 as stated: a frame that ends unblocked and whose speed update runs
\* with speedBoost < 0 leaves
\* speed = max(baseSpeed * 0.6, (baseSpeed + speedBoost) * speedFactor).
C26_NegativeBoostSpeed ==
    [][(FrameRan /\ ~gameState'.horse.isBlocked /\ gameState.speedBoost < 0) =>
        gameState'.speed =
            Max((gameState.baseSpeed * 6) \div 10,
                ((gameState.baseSpeed + gameState.speedBoost)
                    * gameState'.speedFactor) \div 10000)]_vars

\* C26, what the frame does with speedBoost <= 0: speed decays by the fixed
\* step down to the floor 2 and, once at or below baseSpeed, is set to
\* baseSpeed * speedFactor; speedBoost plays no part.
C26_SpeedIgnoresNegativeBoost ==
    [][(/\ FrameRan
        /\ gameState.speedBoost <= 0
        /\ ~(~gameState.horse.isBlocked /\ gameState'.horse.isBlocked)) =>
        LET s == Max(SPEED_DECAY_FLOOR, gameState.speed - SPEED_DECAY)
        IN  gameState'.speed =
              IF s <= gameState.baseSpeed
              THEN (gameState.baseSpeed * gameState'.speedFactor) \div 10000
              ELSE s]_vars

\* every entity of gs that gs2 still holds has moved left by dx
ScrolledBy(gs, gs2, dx) ==
    \A i \in 1..Len(gs.gameObjects) :
        \A j \in WithId(gs2, gs.gameObjects[i].id) :
            gs2.gameObjects[j].x = gs.gameObjects[i].x - dx

\* C27: a frame of a drowning horse that no wall blocks, with drowningTimer
\* (as the frame counts it) below DROWNING_BLOCK_DELAY, ends not blocked and
\* scrolls the entities by the speed; a frame whose timer has reached the
\* delay ends blocked and leaves the entities where they are; and a drowning,
\* blocked horse stays blocked until a restart.
C27_DrowningBlockDelay ==
    [][/\ (FrameRan /\ gameState.horse.isDrowning) =>
            /\ (/\ gameState'.horse.drowningTimer < DROWNING_BLOCK_DELAY
                 /\ ~gameState.horse.isBlocked
                 /\ ~hitsPlatformWall(gameState))
                => /\ ~gameState'.horse.isBlocked
                   /\ ScrolledBy(gameState, gameState', gameState'.speed)
            /\ gameState'.horse.drowningTimer >= DROWNING_BLOCK_DELAY
                => /\ gameState'.horse.isBlocked
                   /\ ScrolledBy(gameState, gameState', 0)
       /\ (gameState.horse.isDrowning /\ gameState.horse.isBlocked /\ ~Restarted)
            => gameState'.horse.isBlocked]_vars

\* C27: a drowning run halted by the delay, two frames after the timer
\* reached it
C27_Witness ==
    /\ gameState.gameRunning
    /\ gameState.horse.isDrowning /\ gameState.horse.isBlocked
    /\ gameState.horse.drowningTimer >= DROWNING_BLOCK_DELAY + 2 * FRAME_MS
    /\ gameState.gameObjects # <<>>

\* the horse and the landing flag as the platform pass of the frame on gs
\* leaves them
afterPlatformPass(gs) ==
    platformPass(gs.gameObjects, 1, gs.horse.isBlocked,
                 [horse |-> integrateGravity(gs.horse), speed |-> gs.speed,
                  landedOnPlatform |-> FALSE, hitPlatformWall |-> FALSE])

\* C28: a processed frame of a horse that is not drowning ends with the
\* horse's bottom edge (y plus the height of its duck state) not below
\* GROUND_Y; and if the frame's horse, not landed on a platform, has reached
\* or passed the ground height for its duck state, the frame ends with the
\* horse at that height, velocityY = 0, isJumping false and
\* currentPlatformLevel = 0.
C28_GroundClamp ==
    [][(FrameRan /\ ~gameState.horse.isDrowning) =>
        LET pp == afterPlatformPass(gameState)
            targetGroundY == GROUND_Y - horseHeightOf(gameState.horse)
        IN  /\ gameState'.horse.y + horseHeightOf(gameState'.horse) <= GROUND_Y
            /\ (~pp.landedOnPlatform /\ pp.horse.y >= targetGroundY) =>
                  /\ gameState'.horse.y = targetGroundY
                  /\ gameState'.horse.velocityY = 0
                  /\ ~gameState'.horse.isJumping
                  /\ gameState'.horse.currentPlatformLevel = 0]_vars

\* C28: a ducking horse that has dropped to the ground height of its duck
\* state and is held there by the clamp
C28_Witness ==
    /\ gameState.gameRunning /\ ~gameState.horse.isDrowning
    /\ gameState.horse.isDucking
    /\ gameState.horse.y = GROUND_Y - DUCK_HEIGHT
    /\ gameState.horse.velocityY = 0 /\ ~gameState.horse.isJumping
    /\ gameState.horse.currentPlatformLevel = 0
    /\ frames < ShortRun

\* the horse of gs resting on the ground, standing or ducking, at x
restingAt(gs, duck, x) ==
    [gs.horse EXCEPT !.isDucking = duck, !.x = x,
                     !.y = GROUND_Y - (IF duck THEN DUCK_HEIGHT ELSE HORSE_HEIGHT)]

\* C29: for every water pit of a reachable state (its top is GROUND_Y) and a
\* horse resting on the ground, standing or ducking: checkCollision is true
\* from one thousandth inside the pit's left edge to one inside its right
\* edge, false when the horse only touches the left or the right edge, false
\* when its bottom edge is one thousandth above GROUND_Y, and strict at the
\* pit's bottom edge; and a frame that ends with the horse not yet drowning
\* at its start, resting on the ground and overlapping a pit horizontally
\* ends with it drowning.
C29_BottomEdgeInclusive ==
    [][/\ \A i \in 1..Len(gameState.gameObjects) :
            LET o == gameState.gameObjects[i]
            IN  o.type = "waterHole" =>
                  /\ o.y = GROUND_Y
                  /\ \A duck \in BOOLEAN :
                        /\ checkCollision(restingAt(gameState, duck, o.x - HORSE_WIDTH + 1), o)
                        /\ checkCollision(restingAt(gameState, duck, o.x + o.width - 1), o)
                        /\ ~checkCollision(restingAt(gameState, duck, o.x - HORSE_WIDTH), o)
                        /\ ~checkCollision(restingAt(gameState, duck, o.x + o.width), o)
                        /\ ~checkCollision(
                              [restingAt(gameState, duck, o.x) EXCEPT !.y = @ - 1], o)
                        /\ checkCollision(
                              [restingAt(gameState, duck, o.x) EXCEPT !.y = o.y + o.height - 1], o)
                        /\ ~checkCollision(
                              [restingAt(gameState, duck, o.x) EXCEPT !.y = o.y + o.height], o)
       /\ FrameRan =>
            \A i \in 1..Len(gameState'.gameObjects) :
                LET o == gameState'.gameObjects[i]
                    h == gameState'.horse
                IN  (/\ o.type = "waterHole"
                     /\ h.x < o.x + o.width /\ h.x + HORSE_WIDTH > o.x)
                    => (gameState'.horse.isDrowning
                          <=> (gameState.horse.isDrowning
                               \/ h.y + horseHeightOf(h) >= GROUND_Y))]_vars

\* C29: a ducking horse resting on the ground (bottom edge exactly GROUND_Y)
\* whose first overlap with a pit has just started the drowning
C29_Witness ==
    /\ gameState.gameRunning
    /\ gameState.horse.isDrowning /\ gameState.horse.drowningTimer = 0
    /\ gameState.horse.isDucking
    /\ gameState.horse.y + DUCK_HEIGHT = GROUND_Y
    /\ \E i \in 1..Len(gameState.gameObjects) :
          /\ gameState.gameObjects[i].type = "waterHole"
          /\ checkCollision(gameState.horse, gameState.gameObjects[i])

\* the floating platforms generateFloatingPlatform makes at spawnX for the
\* lowest, the middle and the highest value of its height draw (the width
\* and the level play no part in the wall test)
FloatingPlatformsAt(spawnX) ==
    {generateFloatingPlatform(0, spawnX, 0, g, 1) : g \in {0, 500, 999}}

\* no horse resting on the ground, standing or ducking, anywhere along the
\* front edge of o, and no horse whose bottom edge is more than 15 below o's
\* top, is reported to hit o's wall; with the bottom edge exactly 15 below
\* the top it is
WalksUnder(gs, o) ==
    /\ \A duck \in BOOLEAN :
          \A x \in {o.x - HORSE_WIDTH, o.x, o.x + FRONT_EDGE_BAND - 1} :
            LET rest == restingAt(gs, duck, x)
                height == horseHeightOf(rest)
            IN  /\ ~checkPlatformWallCollision(rest, o)
                /\ ~checkPlatformWallCollision(
                       [rest EXCEPT !.y = o.y + FLOATING_BUFFER + 1 - height], o)
                /\ checkPlatformWallCollision(
                       [rest EXCEPT !.y = o.y + FLOATING_BUFFER - height], o)
    /\ gs.horse.y + horseHeightOf(gs.horse) > o.y + FLOATING_BUFFER
          => ~checkPlatformWallCollision(gs.horse, o)

\* C30: checkPlatformWallCollision is false for a floatingPlatform whenever
\* the horse's bottom edge is more than 15 below the platform's top; this
\* holds for the floating platforms of every reachable state and, in every
\* step that creates entities, for those the generator can make (placed at
\* the horse), so a horse on the ground is not blocked by them: a frame that ends with the horse not drowning and no
\* entity of type platform in the state ends not blocked.
C30_WalkUnder ==
    [][/\ \A i \in 1..Len(gameState.gameObjects) :
            gameState.gameObjects[i].type = "floatingPlatform"
                => WalksUnder(gameState, gameState.gameObjects[i])
       /\ nextId' # nextId =>
            \A o \in FloatingPlatformsAt(gameState.horse.x - 100000) :
                /\ o.y + FLOATING_BUFFER < GROUND_Y - (HORSE_HEIGHT - DUCK_HEIGHT)
                /\ WalksUnder(gameState, o)
       /\ (/\ FrameRan
            /\ ~gameState'.horse.isDrowning
            /\ \A i \in 1..Len(gameState.gameObjects) :
                  gameState.gameObjects[i].type # "platform")
            => ~gameState'.horse.isBlocked]_vars

\* C30: a horse on the ground, not blocked, with the front edge of a floating
\* platform inside its front-edge band
C30_Witness ==
    /\ gameState.gameRunning /\ ~gameState.horse.isBlocked
    /\ gameState.horse.y + horseHeightOf(gameState.horse) = GROUND_Y
    /\ frames < ShortRun
    /\ \E i \in 1..Len(gameState.gameObjects) :
          /\ gameState.gameObjects[i].type = "floatingPlatform"
          /\ gameState.horse.x + HORSE_WIDTH >= gameState.gameObjects[i].x
          /\ gameState.horse.x < gameState.gameObjects[i].x + FRONT_EDGE_BAND

\* draws in which all five spawn tests pass, for every terrain branch and
\* the extreme values of the generators' draws
AllOnDraws ==
    {[fruit |-> [NoDraw EXCEPT !.on = TRUE, !.band = b, !.f = f],
      mushroom |-> [NoDraw EXCEPT !.on = TRUE, !.band = b, !.f = f],
      key |-> [NoDraw EXCEPT !.on = TRUE, !.f = f],
      terrain |-> [NoDraw EXCEPT !.on = TRUE, !.band = kind, !.f = f, !.g = f],
      star |-> [NoDraw EXCEPT !.on = TRUE]] :
        b \in 1..3, kind \in 1..8, f \in {0, 999}}

\* the entities of gs created with an identity from id on
CreatedFrom(gs, id) == {i \in 1..Len(gs.gameObjects) : gs.gameObjects[i].id >= id}

\* C31: every entity a frame's spawnNewObjects appends has
\* x >= max(rightmostX + spacing, GAME_WIDTH + 50), hence x > GAME_WIDTH;
\* and so has every entity the generators make there for any of their draws.
C31_SpawnBeyondEdge ==
    [][(FrameRan /\ nextId' # nextId) =>
        LET before == beforeSpawn(gameState)
            spawnX == Max(rightmostXOf(before) + spacingOf(gameState'.speedFactor),
                          GAME_WIDTH + SPAWN_MIN_MARGIN)
        IN  /\ spawnXOf(before, gameState'.speedFactor) = spawnX
            /\ CreatedFrom(gameState', nextId) # {}
            /\ \A i \in CreatedFrom(gameState', nextId) :
                  /\ gameState'.gameObjects[i].x >= spawnX
                  /\ gameState'.gameObjects[i].x > GAME_WIDTH
            /\ \A d \in AllOnDraws :
                  LET made == newObjectsOf(spawnXOf(before, gameState'.speedFactor), d, nextId)
                  IN  \A k \in 1..Len(made) :
                        made[k].x >= spawnX /\ made[k].x > GAME_WIDTH]_vars

\* C31: a run whose spawner has appended entities beyond the right edge
C31_Witness ==
    /\ gameState.gameRunning
    /\ frames < ShortRun
    /\ \E i \in 1..Len(gameState.gameObjects) :
          /\ gameState.gameObjects[i].id >= 7
          /\ gameState.gameObjects[i].x > GAME_WIDTH

\* the maximum x of the entities, or GAME_WIDTH - 500 when there are none
MaxXOrDefault(objs) ==
    IF objs = <<>> THEN GAME_WIDTH - EMPTY_FRONTIER_BACKOFF
    ELSE MaxX(objs, 2, objs[1].x)

\* the identities of the entities, in order
RECURSIVE IdsOf(_)
IdsOf(objs) == IF objs = <<>> THEN <<>> ELSE <<Head(objs).id>> \o IdsOf(Tail(objs))

\* C32: in every frame, for every draw the spawner can make, spawnNewObjects
\* returns the sequence it is given when the maximum x (GAME_WIDTH - 500 for
\* no entities) is >= GAME_WIDTH + 100, and otherwise a sequence that begins
\* with the given entities, unmodified and in order, followed by new ones;
\* the frame's entities are what is left of one such result.
C32_SpawnAppends ==
    [][FrameRan =>
        LET before == beforeSpawn(gameState)
            sf == gameState'.speedFactor
            due == rightmostXOf(before) < GAME_WIDTH + SPAWN_TRIGGER_MARGIN
        IN  /\ \A d \in (IF due THEN AllOnDraws ELSE {}) \cup FrameDraws \cup {NoDraws} :
                  LET r == spawnNewObjects(before, sf, d, nextId)
                  IN  IF MaxXOrDefault(before) >= GAME_WIDTH + SPAWN_TRIGGER_MARGIN
                      THEN r = before
                      ELSE /\ Len(r) >= Len(before)
                           /\ SubSeq(r, 1, Len(before)) = before
                           /\ \A k \in (Len(before) + 1)..Len(r) : r[k].id >= nextId
            /\ \E d \in drawsOf(gameState) :
                  IdsOf(gameState'.gameObjects)
                      = IdsOf(despawn(spawnNewObjects(before, sf, d, nextId)))]_vars

\* C32: a run whose entity sequence holds earlier entities first and appended
\* ones at its tail
C32_Witness ==
    /\ gameState.gameRunning
    /\ Len(gameState.gameObjects) >= 2
    /\ gameState.gameObjects[1].id < 7
    /\ gameState.gameObjects[Len(gameState.gameObjects)].id >= 7
    /\ \A i \in 1..(Len(gameState.gameObjects) - 1) :
          gameState.gameObjects[i].id < gameState.gameObjects[i + 1].id

-----------------------------------------------------------------------------
\* the number of draw cells for which selectFromTable returns entry k (0: null)
shareOf(table, k) == Cardinality({r \in Cells : selectFromTable(table, r) = k})

collectibleShare == [k \in 0..Len(collectibleTable) |-> shareOf(collectibleTable, k)]

terrainShare == [k \in 0..Len(terrainTable) |-> shareOf(terrainTable, k)]

collectibleTotal == currentWeightAt(collectibleTable, Len(collectibleTable))

terrainTotal == currentWeightAt(terrainTable, Len(terrainTable))

\* C33: the weights of the collectible table and of the terrain table sum to
\* at most 1, and the draws that select an entry of either table have the size
\* of the entry's declared weight: stated of the entries the latest
\* generateObjects call selected.
C33_WeightedShares ==
    spawned # <<>> =>
        LET c == spawned[1].collectible
            t == spawned[1].terrain
        IN  /\ collectibleTotal <= 100
            /\ terrainTotal <= 100
            /\ c # 0 => collectibleShare[c] = collectibleTable[c].weight
            /\ t # 0 => terrainShare[t] = terrainTable[t].weight

\* C33, the part that holds: every terrain entry is selected by draws of the
\* size of its weight and the remaining 0.15 selects nothing; fruit, mushroom
\* and key are selected by draws of the size of their weights.
C33_TerrainAndFirstThree ==
    spawned # <<>> =>
        LET c == spawned[1].collectible
            t == spawned[1].terrain
        IN  /\ terrainTotal = 85
            /\ terrainShare[0] = 15
            /\ t # 0 => terrainShare[t] = terrainTable[t].weight
            /\ c \in 1..3 => collectibleShare[c] = collectibleTable[c].weight

\* C33, what the collectible table does instead: its weights sum to 1.13, a
\* star is selected by the draws above 0.93 only (0.07, not 0.2) and no draw
\* selects nothing.
C33_StarShare ==
    spawned # <<>> =>
        /\ collectibleTotal = 113
        /\ collectibleShare[4] = 7
        /\ collectibleShare[0] = 0
        /\ spawned[1].collectible # 0
        /\ spawned[1].collectible = 4 <=> spawned[1].random[1] >= 93

-----------------------------------------------------------------------------
\* C34: every entity a generator produces with isRideable = true carries a
\* platformLevel, and no fruit, star, key or mushroom carries isRideable.
C34_RideableHasLevel ==
    generated # <<>> =>
        LET e == generated[1]
        IN  /\ e.isRideable => e.platformLevel \in 1..3
            /\ e.type \in {"fruit", "star", "key", "mushroom"} => ~e.isRideable

\* C34, the parts that hold: no collectible is rideable, every platform and
\* floating platform is rideable with a level 1..3, and the rideable entities
\* without a level are exactly the ramps and bridges of objects/terrain.ts.
C34_CollectiblesAndPlatforms ==
    generated # <<>> =>
        LET e == generated[1]
        IN  /\ e.type \in {"fruit", "star", "key", "mushroom"} => ~e.isRideable
            /\ e.type \in {"platform", "floatingPlatform"} =>
                   e.isRideable /\ e.platformLevel \in 1..3
            /\ (e.isRideable /\ e.platformLevel = 0) <=> e.type \in {"ramp", "bridge"}

\* C34, in the game: every entity of gameState.gameObjects, which come from
\* utils/gameLogic.ts only, is rideable exactly when it is a platform or a
\* floating platform, and then has a level 1..3.
C34_GameEntities ==
    \A i \in 1..Len(gameState.gameObjects) :
        LET e == gameState.gameObjects[i]
        IN  /\ e.isRideable <=> e.type \in {"platform", "floatingPlatform"}
            /\ e.isRideable => e.platformLevel \in 1..3

-----------------------------------------------------------------------------
\* C35: updateObjects returns the entities passed in without those with
\* x <= -100 and, when not blocked, with speed subtracted from the x of each
\* of the others, in the same order and with every other field as it was;
\* when nothing is dropped and nothing moves it returns the array passed in.
C35_UpdateObjects ==
    updated # <<>> =>
        LET c == updated[1]
            kept == {i \in 1..Len(c.objects) : c.objects[i].x > -100000}
            dx == IF c.isBlocked THEN 0 ELSE c.speed
        IN  /\ Len(c.array) = Cardinality(kept)
            /\ \A k \in 1..Len(c.array) :
                   \E i \in kept :
                      /\ Cardinality({j \in kept : j <= i}) = k
                      /\ c.array[k] = [c.objects[i] EXCEPT !.x = c.objects[i].x - dx]
            /\ (Cardinality(kept) = Len(c.objects) /\ dx = 0) => c.sameArray
            /\ c.sameArray => c.array = c.objects

\* C35 witness: a call, not blocked, that drops the entity at x = -100 and
\* moves the two around it
C35_Witness ==
    /\ updated # <<>>
    /\ ~updated[1].isBlocked /\ updated[1].speed = INITIAL_SPEED
    /\ Len(updated[1].objects) = 3
    /\ updated[1].objects[1].x = -99000
    /\ updated[1].objects[2].x = -100000
    /\ updated[1].objects[3].x = 400000
    /\ Len(updated[1].array) = 2
    /\ updated[1].array[1].x = -103000 /\ updated[1].array[1].id = 1
    /\ updated[1].array[2].x = 396000 /\ updated[1].array[2].id = 3

\* C35, the array returned when nothing changed: a blocked call, or one with
\* speed 0, on entities that all stay is answered with the array passed in
C35_SameArrayWitness ==
    /\ updated # <<>>
    /\ updated[1].isBlocked /\ updated[1].speed = INITIAL_SPEED
    /\ Len(updated[1].objects) = 2
    /\ updated[1].sameArray

-----------------------------------------------------------------------------
\* C36: GameStateUpdater is last-write-wins: after any sequence of update
\* calls getUpdatedState() and getCurrentHorse() are the state, and the
\* horse, obtained by applying the calls' partial updates one after another.
C36_LastWriteWins ==
    updater # <<>> =>
        /\ getUpdatedState(updater[1]) = updater[1].applied
        /\ getCurrentHorse(updater[1]) = updater[1].applied.horse

\* C36, what holds: a field has the value of the last call that passed a
\* value different from the one in the state the updater was constructed
\* with, so the result is the sequential one whenever no call passes a
\* field its original value after another call has changed it.
C36_FirstWrite ==
    [][LET u == updater[1]
           v == updater'[1]
           sequential(w) == /\ getCurrentHorse(w) = w.applied.horse
                            /\ getUpdatedState(w) = w.applied
       IN  (/\ updater # <<>>
            /\ updater' # <<>>
            /\ sequential(u)
            /\ \A f \in DOMAIN u.horseChanges :
                   v.applied.horse[f] # u.currentState.horse[f]
            /\ \A k \in DOMAIN u.stateChanges :
                   v.applied[k] # u.currentState[k])
           => sequential(v)]_vars

-----------------------------------------------------------------------------
\* C37: in every reachable state gamePaused implies gameStarted and
\* gameRunning, for any interleaving of start, togglePause and frames.
C37_PausedOnlyWhileRunning ==
    gameState.gamePaused => gameState.gameStarted /\ gameState.gameRunning

\* C37, what holds: when every handler reads the flags of the current
\* state (no render is outstanding at any press), the game is paused only
\* while it runs.
C37_PausedWhenRendered ==
    [][(rendered = flagsOf(gameState) /\ C37_PausedOnlyWhileRunning)
        => C37_PausedOnlyWhileRunning']_vars

\* C37, the state the race leads to: paused and over.  Once rendered, no
\* start and no pause toggle is accepted in it.
C37_PausedAndOverAcceptsNothing ==
    (gameState.gamePaused /\ ~gameState.gameRunning /\ rendered = flagsOf(gameState))
        => ~acceptsStart(rendered) /\ ~acceptsPause(rendered)

C37_PausedAndOver ==
    /\ gameState.gameStarted /\ gameState.gamePaused /\ ~gameState.gameRunning
    /\ rendered = flagsOf(gameState)

\* C38: at most one animation-frame callback of the game loop is pending at
\* any time, it is the one gameLoopRef names, and an animation frame
\* advances the simulation by at most one step.
C38_OneCallbackPending ==
    /\ Cardinality(pending) <= 1
    /\ \A c \in pending : c.id = gameLoopRef
    /\ steps <= 1

\* C38 witness: a running game, rendered, in which the effect has requested
\* a callback again after a pause and resume or a restart (more requests
\* than the first one and one per animation frame), one callback is pending
\* and the latest animation frame advanced the simulation by one step
C38_Witness ==
    /\ loopRuns(flagsOf(gameState))
    /\ rendered = flagsOf(gameState)
    /\ intents >= 2
    /\ rafCount >= 2 + (LoopFrames - frames)
    /\ frames < LoopFrames
    /\ Cardinality(pending) = 1
    /\ steps = 1

-----------------------------------------------------------------------------
\* C39: a lowBarrier the horse first touches while ducking is marked
\* collected by that frame and the game goes on; a lowBarrier marked
\* collected is never dispatched again and stays marked, so releasing the
\* duck in a later frame while still overlapping it does not end the game.
C39_DuckedBarrierPassed ==
    [][FrameRan =>
        /\ \A k \in 1..Len(effects') :
               LET e == effects'[k]
               IN  (e.type = "lowBarrier" /\ e.before.horse.isDucking) =>
                     /\ e.after.gameRunning = e.before.gameRunning
                     /\ \A j \in WithId(gameState', e.id) :
                            gameState'.gameObjects[j].collected
        /\ \A i \in 1..Len(gameState.gameObjects) :
               LET o == gameState.gameObjects[i]
               IN  (o.type = "lowBarrier" /\ o.collected) =>
                     /\ EntriesOf(effects', o.id) = {}
                     /\ \A j \in WithId(gameState', o.id) :
                            gameState'.gameObjects[j].collected]_vars

\* C39 witness: the game runs, the horse stands at full height again after
\* the duck was released, and it overlaps a lowBarrier marked collected
C39_Witness ==
    /\ gameState.gameRunning
    /\ ~gameState.horse.isDucking
    /\ gameState.horse.y = GROUND_Y - HORSE_HEIGHT
    /\ \E i \in 1..Len(gameState.gameObjects) :
          /\ gameState.gameObjects[i].type = "lowBarrier"
          /\ gameState.gameObjects[i].collected
          /\ checkCollision(gameState.horse, gameState.gameObjects[i])

====
